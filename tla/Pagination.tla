------------------------------ MODULE Pagination ------------------------------
(***************************************************************************)
(* Paging of the console's lists (src/internal/web/pagination.go).         *)
(*                                                                         *)
(* A list of total rows is cut into pages of perPage rows, numbered from   *)
(* 1. The page number comes from the request and is not clamped to the     *)
(* last page; a negative or missing one counts as page 1.                  *)
(***************************************************************************)
EXTENDS Integers, Sequences, FiniteSets, Functions

\* The page sizes a request may ask for; any other value becomes 25.
AllowedPerPage == {10, 25, 50, 100}

\* The page and page size a request asks for (paginationFromRequest).
FromRequest(page, perPage) ==
    [page |-> IF page < 1 THEN 1 ELSE page,
     perPage |-> IF perPage \in AllowedPerPage THEN perPage ELSE 25]

\* Mutant: a last, partly filled page is not counted.
WholePagesOnly(total, perPage) ==
    IF perPage <= 0 \/ total \div perPage < 1 THEN 1 ELSE total \div perPage

\* Number of pages; an empty list still has its page 1.
TotalPages(total, perPage) ==
    IF perPage <= 0 THEN 1
    ELSE LET n == total \div perPage
                  + (IF total % perPage # 0 THEN 1 ELSE 0)
         IN  IF n < 1 THEN 1 ELSE n

\* Number of rows before the page.
Offset(page, perPage) == IF page < 1 THEN 0 ELSE (page - 1) * perPage

\* First and last row shown on the page ("21-40 / 57").
From(page, perPage, total) == IF total = 0 THEN 0 ELSE Offset(page, perPage) + 1

To(page, perPage, total) ==
    LET end == Offset(page, perPage) + perPage
    IN  IF end > total THEN total ELSE end

HasNext(page, perPage, total) == page < TotalPages(total, perPage)

\* Number of rows that fall on the page: both ends are clamped to the list.
PageLength(page, perPage, total) ==
    LET Clamp(n) == IF n > total THEN total ELSE n
    IN  Clamp(Offset(page, perPage) + perPage) - Clamp(Offset(page, perPage))

\* A list is a function on the places of its rows. A list that was filtered
\* keeps their places, so these need not be consecutive; the rank of a row is
\* its number among the rows that are left.
Rank(list, k) == Cardinality({j \in DOMAIN list : j <= k})

\* The part of a list that falls on the page.
PageOf(list, page, perPage) ==
    Restrict(list, {k \in DOMAIN list :
                       /\ Rank(list, k) > Offset(page, perPage)
                       /\ Rank(list, k) <= Offset(page, perPage) + perPage})

\* The mark for pages left out of the links.
Gap == -1

\* Mutant: the page links have a gap mark only after the fourth page.
LateGap(page, pages) ==
    LET cur == IF page < 1 THEN 1 ELSE page
        start == IF cur - 1 < 2 THEN 2 ELSE cur - 1
        end == IF cur + 1 > pages - 1 THEN pages - 1 ELSE cur + 1
    IN  IF pages <= 7 THEN [i \in 1..pages |-> i]
        ELSE <<1>> \o (IF cur > 4 THEN <<Gap>> ELSE <<>>)
                   \o [i \in 1..(end - start + 1) |-> start + i - 1]
                   \o (IF end < pages - 1 THEN <<Gap>> ELSE <<>>)
                   \o <<pages>>

\* The page links under a list of the given number of pages: all of them up
\* to seven, else the first, the last and the neighbours of the current one.
PageNumbers(page, pages) ==
    LET cur == IF page < 1 THEN 1 ELSE page
        start == IF cur - 1 < 2 THEN 2 ELSE cur - 1
        end == IF cur + 1 > pages - 1 THEN pages - 1 ELSE cur + 1
    IN  IF pages <= 7 THEN [i \in 1..pages |-> i]
        ELSE <<1>> \o (IF cur > 3 THEN <<Gap>> ELSE <<>>)
                   \o [i \in 1..(end - start + 1) |-> start + i - 1]
                   \o (IF end < pages - 1 THEN <<Gap>> ELSE <<>>)
                   \o <<pages>>

\* From a page the links lead to the first and the last page and to the
\* neighbours, in order, with a gap exactly where numbers are left out.
LinksLeadOn(page, pages) ==
    LET links == PageNumbers(page, pages)
    IN  /\ {1, pages} \cup ({page - 1, page, page + 1} \cap 1..pages)
              \subseteq {links[i] : i \in DOMAIN links}
        /\ \A i \in 1..(Len(links) - 1) :
              links[i] # Gap /\ links[i + 1] # Gap
              => links[i + 1] = links[i] + 1
        /\ \A i \in DOMAIN links : links[i] = Gap =>
              i \in 2..(Len(links) - 1) /\ links[i + 1] > links[i - 1] + 1
===============================================================================
