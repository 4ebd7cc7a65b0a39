----------------------------- MODULE CecLibrary -----------------------------
(***************************************************************************)
(* What LibCCEC promises a process: init() brings the driver up, term()    *)
(* brings it down, and neither is seen halfway by the other.  An init()    *)
(* that fails after the driver came up leaves it up; an HdmiCecClose that  *)
(* fails loses the driver for good, and the library says nothing of it.    *)
(***************************************************************************)

VARIABLES initialized,  \* LibCCEC::initialized
          driver        \* "closed", "open" or "lost"

Init == /\ initialized = FALSE
        /\ driver = "closed"

TypeOK == /\ initialized \in BOOLEAN
          /\ driver \in {"closed", "open", "lost"}

\* init() opens the driver before it says that it did ...
Open == /\ ~initialized
        /\ driver = "closed"
        /\ driver' = "open"
        /\ UNCHANGED initialized

\* ... and takes a driver that is lost for one that is open.
InitDone == /\ ~initialized
            /\ driver # "closed"
            /\ initialized' = TRUE
            /\ UNCHANGED driver

\* Only term() closes, and only once init() had succeeded.
Close == /\ initialized
         /\ driver = "open"
         /\ driver' = "closed"
         /\ UNCHANGED initialized

CloseFails == /\ initialized
              /\ driver = "open"
              /\ driver' = "lost"
              /\ UNCHANGED initialized

TermDone == /\ initialized
            /\ driver # "open"
            /\ initialized' = FALSE
            /\ UNCHANGED driver

Next == Open \/ InitDone \/ Close \/ CloseFails \/ TermDone

Spec == Init /\ [][Next]_<<initialized, driver>>
=============================================================================
