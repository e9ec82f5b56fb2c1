---------------------------- MODULE Handshake ----------------------------
(***************************************************************************)
(* The LSP lifecycle of src/handshake.rs: one state, changed by requests   *)
(* only, and the exit code an `exit` notification earns in each state.     *)
(* The module declares the state and says what a request does to it; the   *)
(* modules that extend it say when requests arrive.                        *)
(***************************************************************************)

VARIABLE state

State == {"Uninitialized", "Initialized", "ShuttingDown"}

HandshakeInit == state = "Uninitialized"

\* Mutant: a session that ends with the process, not with its shutdown.
IsInitializedUntilExit == state # "Uninitialized"

IsInitialized == state = "Initialized"

\* What Handshake::handle_request answers to a request of method m.
Reply(m) ==
    CASE state = "Uninitialized" /\ m = "initialize" -> "capabilities"
      [] state = "Uninitialized" /\ m # "initialize" -> "SERVER_NOT_INITIALIZED"
      [] state = "Initialized"   /\ m = "shutdown"   -> "null"
      [] state = "Initialized"   /\ m = "initialize" -> "INVALID_REQUEST"
      [] state = "ShuttingDown"                      -> "INVALID_REQUEST"
      [] OTHER                                       -> "METHOD_NOT_FOUND"

\* The state it moves to: only the two successful lifecycle requests move it.
HandleRequest(m) ==
    state' = IF Reply(m) = "capabilities" THEN "Initialized"
             ELSE IF Reply(m) = "null" THEN "ShuttingDown"
             ELSE state

\* Mutant: success unless a session is left open.
ExitCodeUnlessOpen == IF state = "Initialized" THEN 1 ELSE 0

\* Handshake::handle_notification on `exit`: success only after a shutdown.
ExitCode == IF state = "ShuttingDown" THEN 0 ELSE 1

==========================================================================
