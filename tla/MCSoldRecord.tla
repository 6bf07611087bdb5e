---------------------------- MODULE MCSoldRecord ----------------------------
(* Triples and scopes for SoldRecord.                                      *)
EXTENDS SoldRecord

Triple(pick, high, by, poison) == [pick |-> pick, high |-> high, by |-> by, poison |-> poison]

(* a call, a row of the rating bug, the call with a quote, and a flip      *)
(* below the bar                                                           *)
MCTriples == {Triple("HOME", TRUE, "model", FALSE), Triple("AWAY", TRUE, "model", TRUE),
              Triple("HOME", TRUE, "quote", FALSE), Triple("AWAY", FALSE, "quote", FALSE)}

Scope(club, epoch, recent) == [club |-> club, epoch |-> epoch, recent |-> recent]

(* this season's club football and the rating bug's weeks: an              *)
(* international is in no tally and no record                              *)
MCMatches == {Scope(TRUE, TRUE, TRUE), Scope(TRUE, TRUE, FALSE)}
=============================================================================
