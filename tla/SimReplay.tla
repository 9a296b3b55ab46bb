----------------------------- MODULE SimReplay -----------------------------
(***************************************************************************)
(* Replaying recorded inputs (sim/sim_replay.c, driven by sim/sim_main.c): *)
(* the file is read forward only, keeping two rows, and each request for a *)
(* time is answered by interpolating between them.  The three inputs of a  *)
(* row are treated alike, so one value stands for them; a result is the    *)
(* exact quotient [num, den].                                              *)
(***************************************************************************)
EXTENDS Integers, Sequences

CONSTANTS
  Files,      \* sequences of lines: a row [time, val] or Comment
  Steps,      \* how far the time of a request is ahead of the last one
  MaxTime     \* bound of the model: the latest request

Comment == [time |-> 0, val |-> -1]     \* or empty, or unreadable
IsRow(l) == l # Comment

ASSUME ReplayAssumption ==
  /\ Steps \subseteq Nat /\ MaxTime \in Nat
  /\ \A f \in Files : f \in Seq([time : Nat, val : Nat \cup {-1}])

VARIABLES
  file,       \* the lines of the open file; empty when none is open
  pos,        \* line_num
  cur, nxt,   \* the rows current and next
  hasNext,    \* has_next
  asked,      \* the time of the last request
  busy,       \* sim_replay_get has not returned yet
  given       \* what it returned

replayVars == <<file, pos, cur, nxt, hasNext, asked, busy, given>>

Nothing == [num |-> 0, den |-> 0]

ReplayInit ==
  /\ file = <<>> /\ pos = 0 /\ cur = Comment /\ nxt = Comment
  /\ hasNext = FALSE /\ asked = 0 /\ busy = FALSE /\ given = Nothing

-----------------------------------------------------------------------------
RowsAfter(f, p) == {i \in p + 1 .. Len(f) : IsRow(f[i])}
First(rows) == CHOOSE i \in rows : \A j \in rows : i <= j

(* read_next: the next line of f after line p that is a row.               *)
ReadNext(f, p, old) ==
  LET rows == RowsAfter(f, p)
  IN /\ hasNext' = (rows # {})
     /\ nxt' = IF rows # {} THEN f[First(rows)] ELSE old
     /\ pos' = IF rows # {} THEN First(rows) ELSE Len(f)

(* sim_replay_open: the first line is skipped as the header, whatever it   *)
(* is, and a file without a row after it is refused.                       *)
Open(f) ==
  /\ file = <<>> /\ RowsAfter(f, 1) # {}
  /\ LET one == First(RowsAfter(f, 1))
     IN cur' = f[one] /\ ReadNext(f, one, f[one])
  /\ file' = f /\ asked' = 0 /\ busy' = FALSE /\ given' = Nothing

(* sim_replay_get is called; time moves on between calls.                  *)
Get(t) ==
  /\ file # <<>> /\ ~busy
  /\ asked' = t /\ busy' = TRUE
  /\ UNCHANGED <<file, pos, cur, nxt, hasNext, given>>

Past == busy /\ hasNext /\ nxt.time <= asked

TakeFaulty == cur
Take == nxt

(* One turn of its loop: current becomes next.  TakeFaulty forgets to; no  *)
(* specification uses it.                                                  *)
ReadOn ==
  /\ Past
  /\ cur' = Take /\ ReadNext(file, pos, nxt)
  /\ UNCHANGED <<file, asked, busy, given>>

(* The value on the line through two rows.  t may be before the first row: *)
(* the line is then followed backwards.                                    *)
OnLine(p, q, t) ==
  IF q.time <= p.time THEN [num |-> p.val, den |-> 1]
  ELSE [num |-> p.val * (q.time - t) + q.val * (t - p.time), den |-> q.time - p.time]

Answer ==
  /\ busy /\ ~Past
  /\ given' = IF hasNext THEN OnLine(cur, nxt, asked) ELSE [num |-> cur.val, den |-> 1]
  /\ busy' = FALSE
  /\ UNCHANGED <<file, pos, cur, nxt, hasNext, asked>>

(* sim_replay_close.                                                       *)
Close ==
  /\ file # <<>> /\ ~busy /\ file' = <<>>
  /\ UNCHANGED <<pos, cur, nxt, hasNext, asked, busy, given>>

ReplayNext ==
  \/ \E f \in Files : Open(f)
  \/ \E d \in Steps : asked + d <= MaxTime /\ Get(asked + d)
  \/ ReadOn \/ Answer \/ Close

ReplaySpec == ReplayInit /\ [][ReplayNext]_replayVars

-----------------------------------------------------------------------------
(* Properties.                                                             *)

Answered == file # <<>> /\ ~busy /\ given # Nothing

(* The recording as a function of time: the answer to a request is the one *)
(* the whole file gives, however far requests are apart and however many   *)
(* rows lie between two of them: the last row not later than the request,  *)
(* interpolated towards the row after it, and held after the last row.     *)
(* Said of files in order of time and of requests not before their first   *)
(* row.                                                                    *)
ReplayExact ==
  LET rows == RowsAfter(file, 1)
      past == {i \in rows : file[i].time <= asked}
      now == CHOOSE i \in past : \A j \in past : j <= i
      rest == {i \in rows : i > now}
      sorted == \A i, j \in rows : i < j => file[i].time <= file[j].time
  IN (Answered /\ sorted /\ past # {}) =>
       given = IF rest = {} THEN [num |-> file[now].val, den |-> 1]
               ELSE OnLine(file[now], file[First(rest)], asked)
=============================================================================
