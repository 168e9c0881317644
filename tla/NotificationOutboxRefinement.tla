-------------------- MODULE NotificationOutboxRefinement ---------------------
(* NotificationOutbox implements VisitNews.                                *)
EXTENDS NotificationOutbox

\* What the customer can know of a captured change: not how often it was tried,
\* nor by whom.
Piece(row) ==
    [visit |-> row.visit, from |-> row.from, to |-> row.to, settled |-> row.handled]

News == INSTANCE VisitNews WITH
    status <- visit,
    news   <- [i \in DOMAIN outbox |-> Piece(outbox[i])],
    rung   <- pushed

\* Every step of the writers and of the draining processes is a step of the news
\* or changes nothing a customer sees, whoever crashes, retries or overwrites what
\* he read before: no change is settled or told twice, none that is no news is
\* told, no phone rings twice or for what is not committed.
ImplementsNews == News!NewsSpec
=============================================================================
