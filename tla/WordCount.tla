------------------------------ MODULE WordCount ------------------------------
(***************************************************************************)
(* Counting letters: the master of 03-socket/client.c and of tcp_client in *)
(* 18-sock_app shares a text out among workers (03-socket/server.c and     *)
(* tcp_server), each of which sends 26 numbers back.  A message fits in a  *)
(* segment and is read with one call.  A message that is converted twice   *)
(* has no known bounds, and its worker is "stray".                         *)
(***************************************************************************)
EXTENDS Integers, Sequences, FiniteSets

CONSTANTS
  Task,     \* records [text, workers: server_num, loops: a worker serves again, as in 03-socket]
  Letter,   \* the letters; a text has others too
  U32       \* 2^32, the range of st and ed

VARIABLES
  task,     \* one of Task
  master,   \* what the master does next
  worker,   \* where each worker is
  request,  \* the message a worker has been sent, and keeps
  reply,    \* what each worker has sent back
  num, tnum \* the numbers received last, and the sums
vars == <<task, master, worker, request, reply, num, tnum>>

Workers == 0..task.workers - 1
NoLetters == [letter \in {} |-> 0]
Count(text, places) == [c \in Letter |-> Cardinality({i \in places : text[i + 1] = c})]

\* mutant: the last part is as long as the others
MutPart(i) ==
  LET part == Len(task.text) \div task.workers
  IN [st |-> i * part, ed |-> ((i + 1) * part - 1) % U32]

\* the parts of the text: ed is the last place, and wraps if there is none
Part(i) ==
  LET part == Len(task.text) \div task.workers
      bg == IF i = task.workers - 1 THEN Len(task.text) ELSE (i + 1) * part
  IN [st |-> i * part, ed |-> (bg - 1) % U32]

\* the master sends message i
SendPart(i) ==
  /\ master = <<"send", i>>
  /\ request' = [request EXCEPT ![i] = Part(i)]
  /\ master' = IF i = task.workers - 1 THEN <<"read", 0>> ELSE <<"send", i + 1>>
  /\ UNCHANGED <<task, worker, reply, num, tnum>>

\* a worker counts from st to ed; its i is compared as unsigned, and never exceeds U32 - 1
Serve(i) ==
  /\ worker[i] = "waiting" /\ request[i] # NoLetters
  /\ IF request[i].ed = U32 - 1
     THEN worker' = [worker EXCEPT ![i] = "endless"] /\ UNCHANGED reply
     ELSE /\ reply' = [reply EXCEPT ![i] = Count(task.text, request[i].st..request[i].ed)]
          /\ worker' = [worker EXCEPT ![i] = IF task.loops THEN "again" ELSE "done"]
  /\ UNCHANGED <<task, master, request, num, tnum>>

\* the loop of 03-socket: recv returns 0, and what the message has left is converted again
ServeAgain(i) ==
  /\ worker[i] = "again" /\ master = <<"done", 0>>
  /\ worker' = [worker EXCEPT ![i] = "stray"]
  /\ UNCHANGED <<task, master, request, reply, num, tnum>>

\* the master takes the answers in turn
Gather(i) ==
  /\ master = <<"read", i>> /\ reply[i] # NoLetters
  /\ num' = reply[i]
  /\ tnum' = [c \in Letter |-> tnum[c] + reply[i][c]]
  /\ master' = IF i = task.workers - 1 THEN <<"done", 0>> ELSE <<"read", i + 1>>
  /\ UNCHANGED <<task, worker, request, reply>>

Init ==
  /\ task \in Task
  /\ master = <<"send", 0>>
  /\ worker = [i \in Workers |-> "waiting"]
  /\ request = [i \in Workers |-> NoLetters] /\ reply = request
  /\ num = NoLetters /\ tnum = [c \in Letter |-> 0]

Next == \E i \in Workers : SendPart(i) \/ Serve(i) \/ ServeAgain(i) \/ Gather(i)
Spec == Init /\ [][Next]_vars /\ WF_vars(Next)
-----------------------------------------------------------------------------
(***************************************************************************)
(* The master prints how often each letter is in the text, if the text has *)
(* a character for each worker; with fewer the parts are empty, and a      *)
(* worker counts for ever.                                                 *)
(***************************************************************************)
Ended ==
  IF Len(task.text) >= task.workers
  THEN master = <<"done", 0>> /\ tnum = Count(task.text, 0..Len(task.text) - 1)
  ELSE \E i \in Workers : worker[i] = "endless"
Counted == <>Ended
=============================================================================
