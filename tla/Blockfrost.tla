----------------------------- MODULE Blockfrost -----------------------------
(***************************************************************************)
(* A listing as the client fetches it: page after page of a set that may   *)
(* change in between, each request tried again after a transient error.    *)
(***************************************************************************)
EXTENDS Integers, Sequences

CONSTANTS PageSize, MaxRetries

ASSUME BlockfrostAssumption == PageSize \in Nat \ {0} /\ MaxRetries \in Nat

Listing == [page |-> 1, rows |-> <<>>, tries |-> 0, status |-> "asking"]

(* Page n of a list as the provider has it when asked. *)
PageOf(list, n) ==
    LET from == (n - 1) * PageSize + 1
        to   == IF n * PageSize < Len(list) THEN n * PageSize ELSE Len(list)
    IN  SubSeq(list, from, to)

(* A short page ends the listing; the next request starts afresh. *)
Answered(l, batch) ==
    [l EXCEPT !.rows = @ \o batch,
              !.tries = 0,
              !.page = IF Len(batch) < PageSize THEN @ ELSE @ + 1,
              !.status = IF Len(batch) < PageSize THEN "done" ELSE "asking"]

\* Mutant: the retry takes the next page.
RefusedSkips(l) ==
    IF l.tries < MaxRetries THEN [l EXCEPT !.tries = @ + 1, !.page = @ + 1]
    ELSE [l EXCEPT !.status = "failed"]

(* 429, 5xx or a lost connection: the same page again, until the retries   *)
(* are used up (BlockfrostUnavailable, or the last connection error).      *)
Refused(l) ==
    IF l.tries < MaxRetries THEN [l EXCEPT !.tries = @ + 1]
    ELSE [l EXCEPT !.status = "failed"]

(* A read timeout, any other HTTP error, or a page that is not a list ends *)
(* the run: none of them is tried again.                                   *)
Broken(l) == [l EXCEPT !.status = "failed"]
=============================================================================
