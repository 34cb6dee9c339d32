----------------------------- MODULE Executions -----------------------------
(* The executions of handlers (handlerExec of internal/plugin/handler.go). *)
(* HandlerStore is about their storage, HandlerReply about their answers.  *)

CONSTANT Execs
=============================================================================
