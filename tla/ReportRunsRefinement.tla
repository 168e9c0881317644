------------------------ MODULE ReportRunsRefinement -------------------------
(* ReportRuns implements ReportShelf.                                      *)
EXTENDS ReportRuns

Shelf == INSTANCE ReportShelf WITH
    Reports <- Runs, Limit <- MaxAttempts, AtOnce <- MaxConcurrent,
    report <- run, shown <- rows

\* Every step of the ticks and the workers is a step of the shelf or changes nothing
\* a reader of a report sees: however many workers are on one report, live or
\* presumed dead, and however late a tick's statement or a worker's answer, reports
\* are taken up in order, published as a whole, and not made again once answered.
ImplementsShelf == Shelf!ShelfSpec
=============================================================================
