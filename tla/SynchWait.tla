----------------------------- MODULE SynchWait -----------------------------
(***************************************************************************)
(* struct synch_wait (EXP18 include/synch_wait.h): a mutex, a condition    *)
(* variable and the flags notified, dead and sleep.  A socket has four of  *)
(* them (connect, accept, recv, send).  This module holds no state: it     *)
(* gives each critical section of the header as a function on the value    *)
(* of the struct.  The mutex is held for the whole of a critical section   *)
(* and released only inside pthread_cond_wait, so a section is one step,   *)
(* split in two where the thread blocks.                                   *)
(*                                                                         *)
(*   blocked : threads inside pthread_cond_wait                            *)
(*   woken   : threads out of it again but still to take the mutex         *)
(***************************************************************************)
EXTENDS Naturals

WaitType(T) ==
    [notified : BOOLEAN, dead : BOOLEAN, sleep : BOOLEAN,
     blocked : SUBSET T, woken : SUBSET T]

WaitInit ==
    [notified |-> FALSE, dead |-> FALSE, sleep |-> FALSE,
     blocked |-> {}, woken |-> {}]

InCondWait(w) == w.blocked \cup w.woken

(* sleep_on waits only if the struct is alive and not already notified. *)
WouldBlock(w) == ~w.dead /\ ~w.notified

(* The part of sleep_on up to its return, or up to pthread_cond_wait. *)
SleepOn(w, t) ==
    IF w.dead THEN w
    ELSE IF w.notified
         THEN [w EXCEPT !.notified = FALSE, !.sleep = FALSE]
         ELSE [w EXCEPT !.sleep = TRUE, !.blocked = @ \cup {t}]

(* pthread_cond_wait may end without a signal. *)
Spurious(w, t) == [w EXCEPT !.blocked = @ \ {t}, !.woken = @ \cup {t}]

(* The part of sleep_on after pthread_cond_wait returns to thread t. *)
Resume(w, t) ==
    [w EXCEPT !.notified = FALSE, !.sleep = FALSE, !.woken = @ \ {t}]

(* wake_up: pthread_cond_signal wakes one blocked thread, any of them. *)
WakeUp(w) ==
    IF w.dead \/ w.notified THEN {w}
    ELSE IF w.sleep /\ w.blocked # {}
         THEN {[w EXCEPT !.notified = TRUE, !.blocked = @ \ {t},
                         !.woken = @ \cup {t}] : t \in w.blocked}
         ELSE {[w EXCEPT !.notified = TRUE]}

(* wait_exit: broadcasts only if the sleep flag is up. *)
WaitExit(w) ==
    IF w.dead THEN w
    ELSE IF w.sleep
         THEN [w EXCEPT !.dead = TRUE, !.blocked = {},
                        !.woken = @ \cup w.blocked]
         ELSE [w EXCEPT !.dead = TRUE]
=============================================================================
