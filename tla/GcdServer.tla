----------------------------- MODULE GcdServer -----------------------------
(***************************************************************************)
(* What a GCD unit with a Decoupled input and output promises: it takes    *)
(* one request at a time, and answers it once, with its operands and their *)
(* greatest common divisor.  A reset forgets the request.                  *)
(***************************************************************************)
EXTENDS CommonDivisor

CONSTANT None      \* no request

VARIABLES
  request,         \* the request being worked on, or None
  answer,          \* the last output the consumer took
  reset            \* the unit was reset in the cycle that ended

server == <<request, answer, reset>>

Answers == [value1 : Value, value2 : Value, gcd : Value]

ServerInit == request = None /\ answer \in Answers /\ reset = TRUE

Accept ==
  /\ request = None /\ ~ reset'
  /\ request' \in Value \X Value
  /\ UNCHANGED answer

Answer ==
  /\ request # None
  /\ answer' \in Answers
  /\ answer'.value1 = request[1] /\ answer'.value2 = request[2]
  /\ IsGcd(answer'.gcd, request[1], request[2])
  /\ request' = None
  /\ reset' \in BOOLEAN

Forget == reset' /\ request' = None /\ UNCHANGED answer

\* A cycle of work, or without work.
Wait == ~ reset' /\ UNCHANGED <<request, answer>>

ServerNext == Accept \/ Answer \/ Forget \/ Wait

ServerSpec == ServerInit /\ [][ServerNext]_server

=============================================================================
