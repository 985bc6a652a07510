----------------------------- MODULE ReadyQueue -----------------------------
(***************************************************************************)
(* The operations of src/scheduling/ready_queue.c.  The linked list of     *)
(* PCBs behind ready_queue_head is a sequence of their addresses; its      *)
(* length is process_count.  score is the job_score field of every PCB.    *)
(***************************************************************************)
EXTENDS Integers, Sequences

MAX_NUM_PROGRAMS == 3   \* ready_queue.h

(* append_process and appendleft_process *)
AppendProcess(queue, pcb) == Append(queue, pcb)
AppendLeftProcess(queue, pcb) == <<pcb>> \o queue

(* One comparison of the sort: it exchanges only a strictly larger score. *)
Exchange(queue, i, j, score) ==
  IF j <= Len(queue) /\ score[queue[i]] > score[queue[j]]
  THEN [queue EXCEPT ![i] = queue[j], ![j] = queue[i]]
  ELSE queue

(* A fault: the last comparison is left out. *)
BrokenSort(queue, score) ==
  LET count  == IF Len(queue) < MAX_NUM_PROGRAMS THEN Len(queue)
                                                 ELSE MAX_NUM_PROGRAMS
      popped == SubSeq(queue, 1, count)
  IN  SubSeq(queue, count + 1, Len(queue))
        \o Exchange(Exchange(popped, 1, 2, score), 1, 3, score)

(* sort_ready_queue: pop at most MAX_NUM_PROGRAMS processes, sort those,   *)
(* append them behind whatever is still queued.                            *)
SortReadyQueue(queue, score) ==
  LET count  == IF Len(queue) < MAX_NUM_PROGRAMS THEN Len(queue)
                                                 ELSE MAX_NUM_PROGRAMS
      popped == SubSeq(queue, 1, count)
      round1 == Exchange(popped, 1, 2, score)
      round2 == Exchange(round1, 1, 3, score)
      sorted == Exchange(round2, 2, 3, score)
  IN  SubSeq(queue, count + 1, Len(queue)) \o sorted

(* The processes in the queue. *)
Queued(queue) == {queue[i] : i \in DOMAIN queue}

(* age_ready_queue, on one job score. *)
Aged(score) == IF score > 0 THEN score - 1 ELSE score

(* find_duplicate_script: the places at which the queue holds a process of *)
(* the script; the scan returns the first.                                 *)
Duplicates(queue, filename, script) ==
  {i \in DOMAIN queue : filename[queue[i]] = script}

FirstOf(places) == CHOOSE i \in places : \A j \in places : i <= j

=============================================================================
