------------------------------- MODULE ApiClient -------------------------------
(***************************************************************************)
(* The football-data client.  Every job opens one of its own, with a       *)
(* sliding-window limiter, a cache with a time to live and a retry of a    *)
(* refused request; the provider counts the requests of all of them        *)
(* against one key.  A job makes its calls one after the other.            *)
(*                                                                         *)
(* Instants are kept as ages, which stop counting when they no longer      *)
(* matter.  api_football.py has the same limiter, cache and retry.         *)
(***************************************************************************)
EXTENDS Integers, Sequences, FiniteSetsExt

CONSTANTS
    Clients,        \* jobs that may run at the same time
    Calls,          \* the paths a job asks for, in order
    Limit,          \* rate_limit_per_min
    Window,         \* 60 s
    CacheTtl,       \* cache_ttl_seconds
    Quota,          \* requests the provider grants the key in a window
    MaxReruns       \* bound: runs of a job

VARIABLES
    client,     \* client[j]: where the call of j stands, its limiter, cache and calls to come
    granted     \* ages of the requests the provider has granted in this window

clientVars == <<client, granted>>

ASSUME ClientAssumption ==
    /\ Limit \in Nat \ {0} /\ Window \in Nat \ {0} /\ CacheTtl \in Nat
    /\ Quota \in Nat /\ MaxReruns \in Nat /\ Calls \in Seq({Calls[i] : i \in DOMAIN Calls})

Paths == {Calls[i] : i \in DOMAIN Calls}

(* A client that was just opened.                                          *)
Opened(runs) ==
    [pc |-> "idle", stamps |-> << >>, sent |-> << >>, wait |-> 0,
     cache |-> [p \in Paths |-> CacheTtl], calls |-> Calls, runs |-> runs]

ClientType ==
    [pc : {"idle", "limited", "sent", "refused"}, stamps : Seq(0 .. Window), sent : Seq(0 .. Window - 1),
     wait : 0 .. Window, cache : [Paths -> 0 .. CacheTtl], calls : Seq(Paths), runs : 0 .. MaxReruns]

ClientTypeOK ==
    /\ client \in [Clients -> ClientType]
    /\ \A j \in Clients :
         /\ Len(client[j].stamps) <= Limit /\ Len(client[j].calls) <= Len(Calls)
         /\ client[j].calls = SubSeq(Calls, Len(Calls) - Len(client[j].calls) + 1, Len(Calls))
         /\ client[j].pc # "idle" => client[j].calls # << >>
    /\ granted \in Seq(0 .. Window - 1) /\ Len(granted) <= Quota

ClientInit == client = [j \in Clients |-> Opened(0)] /\ granted = << >>

Older(age, old) == IF age < old THEN age + 1 ELSE old
OlderAll(ages) == [i \in DOMAIN ages |-> Older(ages[i], Window)]

(* The newest of them, down to the first that is a window old: they are in *)
(* the order they were sent.                                               *)
InWindow(ages) ==
    LET gone == Min({n \in 0 .. Len(ages) : \A i \in n + 1 .. Len(ages) : ages[i] < Window})
    IN  SubSeq(ages, gone + 1, Len(ages))

(* Time passes; what the provider granted a window ago is granted anew.    *)
ClientTick ==
    /\ client' = [j \in Clients |->
         [client[j] EXCEPT !.stamps = OlderAll(@),
                           !.sent = InWindow(OlderAll(@)),
                           !.wait = IF @ = 0 THEN 0 ELSE @ - 1,
                           !.cache = [p \in Paths |-> Older(@[p], CacheTtl)]]]
    /\ granted' = InWindow(OlderAll(granted))

-----------------------------------------------------------------------------
(* _SlidingWindow.acquire: the oldest stamp leaves if its window is over.  *)
Room(stamps) == IF Len(stamps) >= Limit /\ Head(stamps) >= Window THEN Tail(stamps) ELSE stamps

(* The caller sends if there is room, or sleeps until there is.            *)
Acquired(c) ==
    LET left == Room(c.stamps) IN
    IF Len(left) < Limit
    THEN [c EXCEPT !.pc = "sent", !.stamps = Append(left, 0), !.sent = Append(@, 0)]
    ELSE [c EXCEPT !.pc = "limited", !.wait = Window - Head(left)]

(* The call returns: its answer is cached or it raised.                    *)
Returned(c) == [c EXCEPT !.pc = "idle", !.calls = Tail(@)]

Fresh(c) == c.cache[Head(c.calls)] < CacheTtl

(* _get                                                                    *)
Get(j) ==
    /\ client[j].pc = "idle" /\ client[j].calls # << >>
    /\ client' = [client EXCEPT ![j] = IF Fresh(@) THEN Returned(@) ELSE Acquired(@)]
    /\ UNCHANGED granted

(* The sleep of the limiter is over: it looks again.                       *)
Awake(j) ==
    /\ client[j].pc = "limited" /\ client[j].wait = 0
    /\ client' = [client EXCEPT ![j] = Acquired(@)]
    /\ UNCHANGED granted

Answered(j) ==
    /\ client[j].pc = "sent" /\ Len(granted) < Quota
    /\ granted' = Append(granted, 0)
    /\ client' = [client EXCEPT ![j] = Returned([@ EXCEPT !.cache[Head(@.calls)] = 0])]

(* A transport or HTTP error is raised, and the job goes on or gives up.   *)
Failed(j) ==
    /\ client[j].pc = "sent"
    /\ \E calls \in {Tail(client[j].calls), << >>} :
         client' = [client EXCEPT ![j].pc = "idle", ![j].calls = calls]
    /\ UNCHANGED granted

(* Mutant: the refused call is made again without a stamp of its own.      *)
RetriedUnstamped(c) == [c EXCEPT !.pc = "sent", !.sent = Append(@, 0)]

(* After 429 the whole call is made anew, cache and limiter included.      *)
Retried(c) == IF Fresh(c) THEN Returned(c) ELSE Acquired(c)

Refused(j, after) ==
    /\ client[j].pc = "sent" /\ Len(granted) = Quota
    /\ client' = [client EXCEPT ![j].pc = "refused", ![j].wait = after]
    /\ UNCHANGED granted

Retry(j) ==
    /\ client[j].pc = "refused" /\ client[j].wait = 0
    /\ client' = [client EXCEPT ![j] = Retried(@)]
    /\ UNCHANGED granted

(* The job is done, and opens a new client at its next run.                *)
NextRun(j) ==
    /\ client[j].pc = "idle" /\ client[j].calls = << >> /\ client[j].runs < MaxReruns
    /\ client' = [client EXCEPT ![j] = Opened(client[j].runs + 1)]
    /\ UNCHANGED granted

ClientStep(j) == Get(j) \/ Awake(j) \/ Answered(j) \/ (\E after \in 1 .. Window : Refused(j, after)) \/ Retry(j)

ClientNext == ClientTick \/ \E j \in Clients : ClientStep(j) \/ Failed(j) \/ NextRun(j)

ClientSpec == ClientInit /\ [][ClientNext]_clientVars

-----------------------------------------------------------------------------
(* Property                                                                *)

(* A client never sends more than its limit within a window, retries of    *)
(* refused requests included.                                              *)
WindowRespected == \A j \in Clients : Len(client[j].sent) <= Limit
=============================================================================
