---------------------------- MODULE ChildProcess ----------------------------
(***************************************************************************)
(* A program that dip starts and whose output it shows line by line: a     *)
(* `docker compose` with one reader thread for each of its two streams     *)
(* (src/runtime/docker.rs), or a hook whose stdout the command reads       *)
(* itself (src/hooks.rs).  A pipe holds few lines; a full one blocks the    *)
(* child, a reader stops at a line that is not UTF-8 and closes its pipe,   *)
(* and the child that writes to a closed pipe is killed.                   *)
(***************************************************************************)
EXTENDS Naturals, Sequences

CONSTANTS
    PipeSize,      \* lines that fit into a pipe
    Scripts        \* what children write: sequences of [stream, text], text FALSE if it is not UTF-8

Streams == {"out", "err"}

VARIABLE child     \* the child of the command that runs, if any

NoChild == [script |-> <<>>, pipe |-> [s \in Streams |-> <<>>], readers |-> {}, open |-> {},
            alive |-> FALSE, fails |-> FALSE, captured |-> 0]

(* The piped streams get a reader each; the others are the terminal's. *)
Spawned(piped, script, fails) ==
    [NoChild EXCEPT !.script = script, !.readers = piped, !.open = piped, !.alive = TRUE, !.fails = fails]

(* The child's next line goes to the terminal, into its pipe, or, if the   *)
(* pipe was closed, nowhere: SIGPIPE ends the child.                       *)
Write(piped) ==
    /\ child.alive /\ child.script # <<>>
    /\ LET line == Head(child.script)
           s == line.stream
           next == [child EXCEPT !.script = Tail(@)]
       IN  \/ s \notin piped /\ child' = next
           \/ /\ s \in child.open /\ Len(child.pipe[s]) < PipeSize
              /\ child' = [next EXCEPT !.pipe[s] = Append(@, line.text)]
           \/ /\ s \in piped \ child.open
              /\ child' = [next EXCEPT !.script = <<>>, !.alive = FALSE, !.fails = TRUE]
Exit ==
    /\ child.alive /\ child.script = <<>>
    /\ child' = [child EXCEPT !.alive = FALSE]

ReadAfterWait(s) ==     (* Mutation: the streams are read once the child was waited for *)
    /\ s \in child.readers /\ ~child.alive
    /\ IF child.pipe[s] = <<>>
       THEN child' = [child EXCEPT !.readers = @ \ {s}]
       ELSE child' = [child EXCEPT !.pipe[s] = Tail(@)]

(* A reader takes a line, or ends: at the end of the stream, or at a line  *)
(* that is not UTF-8, with which it drops the pipe.                        *)
Read(s) ==
    /\ s \in child.readers
    /\ \/ /\ child.pipe[s] # <<>> /\ Head(child.pipe[s])
          /\ child' = [child EXCEPT !.pipe[s] = Tail(@), !.captured = IF s = "out" THEN @ + 1 ELSE @]
       \/ /\ child.pipe[s] # <<>> /\ ~Head(child.pipe[s])
          /\ child' = [child EXCEPT !.pipe[s] = <<>>, !.readers = @ \ {s}, !.open = @ \ {s}]
       \/ /\ child.pipe[s] = <<>> /\ ~child.alive
          /\ child' = [child EXCEPT !.readers = @ \ {s}]

(* wait() has returned and the readers have ended. *)
Waited == ~child.alive /\ child.readers = {}
=============================================================================
