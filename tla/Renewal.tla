------------------------------ MODULE Renewal ------------------------------
(***************************************************************************)
(* When a worker renews what it holds (pkg/worker, doWhileRenewing): its   *)
(* renewal goroutine wakes part of the way into the lease it was granted,  *)
(* renews for the same lease, and after a failure that may pass wakes      *)
(* again soon, jittered later.  Calls take no time here, and the worker's  *)
(* clock runs as the server's.                                             *)
(***************************************************************************)
EXTENDS Integers

CONSTANT Lease  \* grantedLease: what the claim was granted, At minus Modified

VARIABLES wake,        \* when the goroutine's timer fires
          expires,     \* when the hold lapses
          retryDelay,  \* the wait before the last retry, 0 while renewals succeed
          failed       \* history: the renewals that have failed in a row

renewalVars == <<wake, expires, retryDelay, failed>>

RenewalDurationFor(lease) == (lease * 2) \div 3

Interval == RenewalDurationFor(Lease)
Margin == Lease - Interval

NextRenewalRetry(last) ==
    LET next == IF last > 0 THEN last * 2 ELSE Margin \div 8
    IN  IF Margin <= 0 \/ next > Interval THEN Interval ELSE next

JitterLater(d) == d .. d + d \div 4

(* The claim was made at 0, and its doc sets within the interval since: *)
(* the first wait is shorter by as much.                                *)
RenewalInit ==
    /\ wake = Interval
    /\ expires = Lease
    /\ retryDelay = 0 /\ failed = 0

Renews ==
    /\ expires' = wake + Lease
    /\ wake' = wake + Interval
    /\ retryDelay' = 0 /\ failed' = 0

(* The call fails, but not because the claim is lost. *)
FailsToRenew ==
    /\ retryDelay' = NextRenewalRetry(retryDelay)
    /\ \E d \in JitterLater(retryDelay') : wake' = wake + d
    /\ failed' = failed + 1
    /\ UNCHANGED expires

RenewalNext == Renews \/ FailsToRenew

RenewalSpec == RenewalInit /\ [][RenewalNext]_renewalVars

-----------------------------------------------------------------------------

(* After one failure, and after a second in a row, the next attempt still  *)
(* comes before the hold lapses, however the retries are jittered: one     *)
(* dropped call, or two, never costs the claim.  A third retry need not    *)
(* come in time: without the jitter it would, at seven eighths of the      *)
(* margin, and with it at up to thirty-five parts of thirty-two.           *)
RetriesInTime == failed <= 2 => wake < expires
=============================================================================
