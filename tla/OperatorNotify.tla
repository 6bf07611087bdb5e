--------------------------- MODULE OperatorNotify ---------------------------
(***************************************************************************)
(* notify_operator: every watchdog of the daemon pages the operator        *)
(* through it.  A message of a kind starts a cooldown kept in memory; the  *)
(* check of the cooldown and its start are on either side of the send.     *)
(***************************************************************************)
EXTENDS Integers, FiniteSets

CONSTANTS
    Keys,           \* the (kind, dedupe_key) pairs
    Watchdogs,      \* coroutines that may call it at the same time
    Cooldown,       \* cooldown_for(kind); 0 is never suppressed
    Unset,
    MaxInFlight,    \* calls that may be open at once
    MaxTime,        \* bound: last instant
    MaxFailures,    \* bound: sends rejected or lost
    MaxTimeouts,    \* bound: sends delivered but reported as failed
    MaxRestarts     \* bound: restarts of the process

ASSUME PagesAssumption ==
    /\ {MaxTime, MaxFailures, MaxTimeouts, MaxRestarts} \subseteq Nat
    /\ Unset \notin Nat /\ Unset \notin [key : Keys, stamp : Nat, attempt : {"markdown", "plain"}]

VARIABLES
    clock,
    lastSent,   \* _last_sent[k], Unset if no send was confirmed since the start
    call,       \* call[w]: the open call of w, Unset if it has none
    delivered,  \* <<k, stamp, w, attempt>>: messages that reached the operator
    mishaps     \* [failures, timeouts, restarts] used up

pagesVars == <<clock, lastSent, call, delivered, mishaps>>

Times == 0 .. MaxTime
Attempts == {"markdown", "plain"}

PagesTypeOK ==
    /\ clock \in Times
    /\ lastSent \in [Keys -> Times \cup {Unset}]
    /\ call \in [Watchdogs -> [key : Keys, stamp : Times, attempt : Attempts] \cup {Unset}]
    /\ delivered \subseteq Keys \X Times \X Watchdogs \X Attempts
    /\ mishaps \in [failures : 0 .. MaxFailures, timeouts : 0 .. MaxTimeouts, restarts : 0 .. MaxRestarts]

PagesInit ==
    /\ clock = 0 /\ delivered = {}
    /\ lastSent = [k \in Keys |-> Unset] /\ call = [w \in Watchdogs |-> Unset]
    /\ mishaps = [failures |-> 0, timeouts |-> 0, restarts |-> 0]

Tick ==
    /\ clock < MaxTime /\ clock' = clock + 1
    /\ UNCHANGED <<lastSent, call, delivered, mishaps>>

-----------------------------------------------------------------------------
(* _suppressed: the kind was paged less than a cooldown ago.               *)
Suppressed(k) == Cooldown[k] > 0 /\ lastSent[k] # Unset /\ clock - lastSent[k] < Cooldown[k]

(* The call passes the check and awaits the send; stamp is its start.      *)
Notify(w, k) ==
    /\ call[w] = Unset /\ ~Suppressed(k)
    /\ Cardinality({v \in Watchdogs : call[v] # Unset}) < MaxInFlight
    /\ call' = [call EXCEPT ![w] = [key |-> k, stamp |-> clock, attempt |-> "markdown"]]
    /\ UNCHANGED <<clock, lastSent, delivered, mishaps>>

(* Suppressed: logged, and the call returns False.                         *)
Suppress(k) == Suppressed(k) /\ UNCHANGED pagesVars

(* Mutant: a rejected page counts as sent.                                 *)
StampAlways(k, stamp, ack) == [lastSent EXCEPT ![k] = stamp]

(* Mutant: the end of the cooldown stored in place of its start.           *)
StampDeadline(k, stamp, ack) ==
    IF ack THEN [lastSent EXCEPT ![k] = stamp + Cooldown[k]] ELSE lastSent

(* Only a confirmed send starts the cooldown.                              *)
Stamp(k, stamp, ack) == IF ack THEN [lastSent EXCEPT ![k] = stamp] ELSE lastSent

(* One attempt: with Markdown, then verbatim.  It lands or not, and the    *)
(* code is told so or not.                                                 *)
Send(w, landed, ack) ==
    /\ call[w] # Unset
    /\ ack => landed
    /\ \/ ack /\ mishaps' = mishaps
       \/ ~ack /\ landed /\ mishaps.timeouts < MaxTimeouts
          /\ mishaps' = [mishaps EXCEPT !.timeouts = @ + 1]
       \/ ~landed /\ mishaps.failures < MaxFailures
          /\ mishaps' = [mishaps EXCEPT !.failures = @ + 1]
    /\ delivered' = IF landed
                    THEN delivered \cup {<<call[w].key, call[w].stamp, w, call[w].attempt>>}
                    ELSE delivered
    /\ IF ack \/ call[w].attempt = "plain"
       THEN /\ call' = [call EXCEPT ![w] = Unset]
            /\ lastSent' = Stamp(call[w].key, call[w].stamp, ack)
       ELSE /\ call' = [call EXCEPT ![w].attempt = "plain"]
            /\ UNCHANGED lastSent
    /\ UNCHANGED clock

(* The cooldowns are in memory: a restarted process reports afresh.        *)
NotifyRestart ==
    /\ mishaps.restarts < MaxRestarts
    /\ mishaps' = [mishaps EXCEPT !.restarts = @ + 1]
    /\ lastSent' = [k \in Keys |-> Unset] /\ call' = [w \in Watchdogs |-> Unset]
    /\ UNCHANGED <<clock, delivered>>

Notifying(k) == \E w \in Watchdogs : Notify(w, k)
Sending == \E w \in Watchdogs, landed, ack \in BOOLEAN : Send(w, landed, ack)

PagesNext == Tick \/ (\E k \in Keys : Notifying(k) \/ Suppress(k)) \/ Sending \/ NotifyRestart

PagesSpec == PagesInit /\ [][PagesNext]_pagesVars

(* A watchdog that sees a standing fault calls again at its next run, and  *)
(* an open call ends.                                                      *)
PagesFairSpec == PagesSpec /\ \A k \in Keys : SF_pagesVars(Notifying(k))
                 /\ \A w \in Watchdogs : WF_pagesVars(\E landed, ack \in BOOLEAN : Send(w, landed, ack))

-----------------------------------------------------------------------------
(* Properties                                                              *)

(* A cooldown never runs on a page that did not reach the operator: what   *)
(* is suppressed is a repetition.                                          *)
CooldownNeedsDelivery ==
    \A k \in Keys : lastSent[k] # Unset =>
        \E m \in delivered : m[1] = k /\ m[2] = lastSent[k]

(* A standing fault reaches the operator in the end, whatever failed or    *)
(* restarted before.                                                       *)
FaultIsTold == \A k \in Keys : <>(\E m \in delivered : m[1] = k)
=============================================================================
