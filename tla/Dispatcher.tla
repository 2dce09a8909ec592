------------------------------- MODULE Dispatcher -----------------------------
(***************************************************************************)
(* What becomes of one message: ParseRequest, dispatchSafe, and the        *)
(* handlers of the protocol, of which tools/call calls other handlers.     *)
(*                                                                         *)
(* A message has a kind, and if it is a request an id, which may be None,  *)
(* a method, and for tools/call the name of a method, or "" if there is    *)
(* none, or None if the parameters cannot be read.  A tools/call may name  *)
(* tools/call, and so on: then the name is that of the innermost, and      *)
(* nested says how many there are around it.                               *)
(***************************************************************************)
EXTENDS Naturals, Sequences, SequencesExt, FiniteSets, FiniteSetsExt

CONSTANTS
    Tools,   \* the methods that the modules register
    None

Protocol == {"initialize", "notifications/initialized", "ping", "tools/list", "tools/call"}
Registered == Tools \cup Protocol

\* How a handler ends.
Outcomes == {"result", "validation error", "error", "panic"}

Response(id, status) == [id |-> id, status |-> status]

Statuses == {"result", "tool error", "method not found", "invalid params", "internal error",
             "parse error", "invalid request"}

\* The error of ParseRequest, or None.
ParseError(message) ==
    CASE message.kind = "garbage" -> "parse error"
      [] message.kind = "invalid" -> "invalid request"
      [] message.kind = "request" -> None

\* The handler that in the end runs for a request, or None; for tools/call this is
\* the one that the innermost names, which is any that is registered.
Target(request) ==
    IF request.method = "tools/call" /\ request.name \in Registered
    THEN request.name
    ELSE IF request.method \in Registered THEN request.method ELSE None

\* How a tools/call ends, given how the handler that it names does: an error of that
\* handler is a result which says so, and such a result is one like any other.
Passed(ends) ==
    CASE ends \in {"validation error", "error"} -> "tool error"
      [] ends \in {"tool error", "result"} -> "result"
      [] ends = "panic" -> "panic"

\* The innermost handleToolsCall, given how the handler it names ends.
Innermost(request, outcome) ==
    CASE request.name \in {None, ""} -> "validation error"
      [] request.name \notin {None, ""} \cup Registered -> "tool error"
      [] request.name \in Registered -> Passed(outcome)

\* handleToolsCall, which runs once more for each call around another; two and more of
\* these come to the same.
HandleToolsCall(request, outcome) ==
    LET ends == Innermost(request, outcome)
    IN  IF request.nested = 0 THEN ends
        ELSE IF request.nested = 1 THEN Passed(ends)
        ELSE Passed(Passed(ends))

\* A variant whose deferred function recovers but does not set the response.
Dispatch_LosesPanic(request, outcome) ==
    LET ends == IF request.method = "tools/call" THEN HandleToolsCall(request, outcome) ELSE outcome
    IN  CASE request.method \notin Registered -> Response(request.id, "method not found")
          [] request.method \in Registered /\ ends = "panic" -> None
          [] OTHER -> Response(request.id, ends)

\* dispatchSafe: always a response, with the id of the request.
Dispatch(request, outcome) ==
    LET ends == IF request.method = "tools/call" THEN HandleToolsCall(request, outcome) ELSE outcome
        status ==
            CASE request.method \notin Registered -> "method not found"
              [] request.method \in Registered /\ ends = "validation error" -> "invalid params"
              [] request.method \in Registered /\ ends \in {"error", "panic"} -> "internal error"
              [] request.method \in Registered /\ ends \in {"result", "tool error"} -> ends
    IN  Response(request.id, status)

=============================================================================
