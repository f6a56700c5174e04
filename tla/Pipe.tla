------------------------------- MODULE Pipe -------------------------------
(***************************************************************************)
(* A BufWriter and a BufReader at the two ends of one stream, as they are  *)
(* used over a fiber::Conn: do_write_ puts bytes on the wire, do_read_     *)
(* takes them off and finds the end once the writer's side is closed.      *)
(***************************************************************************)
EXTENDS BufWriter, BufReader

VARIABLE closed   \* external: the writer's side is closed

pipeVars == <<writerVars, readerVars, closed>>

PipeTypeOK == WriterTypeOK /\ ReaderTypeOK /\ closed \in BOOLEAN

PipeInit == WriterInit /\ ReaderInit /\ closed = FALSE

WriterSide == ~ closed /\ WriterNext /\ UNCHANGED <<readerVars, closed>>

CloseWriter ==
  /\ wop = "none"
  /\ closed' = TRUE
  /\ UNCHANGED <<writerVars, readerVars>>

\* do_read_ gives what is on the wire, waits for it, or finds the end.
ReaderSide ==
  /\ ReaderNext
  /\ taken' <= sent
  /\ call'.state = "eof" => call.state = "eof" \/ (closed /\ taken = sent)
  /\ UNCHANGED <<writerVars, closed>>

PipeNext == WriterSide \/ CloseWriter \/ ReaderSide

PipeSpec == PipeInit /\ [][PipeNext]_pipeVars

-----------------------------------------------------------------------------
(* What the reader has handed out was sent, and a call that ends at the    *)
(* end of the stream leaves nothing of it behind in the reader's buffer:   *)
(* all that is missing is what the writer had not flushed when it closed.  *)
PipeDelivers ==
  /\ given <= sent
  /\ call.state = "eof" => closed /\ given = sent

=============================================================================
