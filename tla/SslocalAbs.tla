----------------------------- MODULE SslocalAbs -----------------------------
(***************************************************************************)
(* What the C ABI of sslocal-ffi promises its callers: one process-wide    *)
(* switch.  A start succeeds exactly when it turns the switch on, a stop   *)
(* succeeds exactly when it turns it off, a query answers its position,    *)
(* and a call that fails leaves it alone.  Every call takes effect at one  *)
(* instant between its beginning and its return.                           *)
(***************************************************************************)
CONSTANT Threads        \* the threads that call the library

VARIABLES on,           \* is there an instance?
          ret           \* what each thread's latest call returned

vars == <<on, ret>>

Pending == "PENDING"    \* the call has not returned yet

\* Errors a start or a set_stat_address may report in either position.
Refusals == {"INVALID_ARG", "BAD_CONFIG", "RUNTIME"}

Init == /\ on = FALSE
        /\ ret = [t \in Threads |-> "OK"]

Begin(t) == /\ ret[t] # Pending
            /\ ret' = [ret EXCEPT ![t] = Pending]
            /\ UNCHANGED on

Start(t) == /\ ret[t] = Pending
            /\ ~on
            /\ on' = TRUE
            /\ ret' = [ret EXCEPT ![t] = "OK"]

AlreadyRunning(t) == /\ ret[t] = Pending
                     /\ on
                     /\ ret' = [ret EXCEPT ![t] = "ALREADY_RUNNING"]
                     /\ UNCHANGED on

Refuse(t) == /\ \E e \in Refusals : ret' = [ret EXCEPT ![t] = e]
             /\ UNCHANGED on

Stop(t) == /\ ret[t] # Pending
           /\ on' = FALSE
           /\ ret' = [ret EXCEPT ![t] = IF on THEN "OK" ELSE "NOT_RUNNING"]

IsRunning(t) == /\ ret[t] # Pending
                /\ ret' = [ret EXCEPT ![t] = IF on THEN "1" ELSE "0"]
                /\ UNCHANGED on

SetStatAddress(t) == /\ ret[t] # Pending
                     /\ ret' = [ret EXCEPT ![t] = "OK"]
                     /\ UNCHANGED on

Next == \E t \in Threads : \/ Begin(t) \/ Start(t) \/ AlreadyRunning(t)
                           \/ Refuse(t) \/ Stop(t) \/ IsRunning(t)
                           \/ SetStatAddress(t)

Spec == Init /\ [][Next]_vars
=============================================================================
