------------------------- MODULE BackpressureQueue --------------------------
(***************************************************************************)
(* The bounded queue of a slow WebSocket client. The code has it twice: over*)
(* a deque in api_gateway/distributed_gateway.py and over a list in         *)
(* api_gateway/ws_scaling.py. A queue is a sequence of messages, a message a*)
(* record with the field priority.                                          *)
(*                                                                          *)
(* push() appends one message and trims while the queue is too long: as it  *)
(* was not before, the loop runs at most once.                              *)
(***************************************************************************)
EXTENDS Integers, Sequences

Priorities == {"state", "telemetry", "perceptual_effect"}

Indexes(queue, priority) == {i \in DOMAIN queue : queue[i].priority = priority}
Least(indexes) == CHOOSE i \in indexes : \A j \in indexes : i <= j

\* Slip: the oldest goes, whatever it is.
DropOldest(queue) == 1

\* Which message a queue that is too long loses: its first effect, else its first
\* telemetry, else its oldest.
DropIndex(queue) ==
  IF Indexes(queue, "perceptual_effect") # {}
  THEN Least(Indexes(queue, "perceptual_effect"))
  ELSE IF Indexes(queue, "telemetry") # {} THEN Least(Indexes(queue, "telemetry"))
  ELSE 1

\* collections.deque.rotate(-k): the first k messages go to the end.
RotateLeft(queue, k) == SubSeq(queue, k + 1, Len(queue)) \o SubSeq(queue, 1, k)

\* Slip: the queue is not rotated back.
DequeRemoveHalfway(queue, i) == Tail(RotateLeft(queue, i - 1))

\* The deque: rotate the message to the front, take it off, rotate back.
DequeRemove(queue, i) ==
  LET rest == Tail(RotateLeft(queue, i - 1))
  IN RotateLeft(rest, Len(rest) - (i - 1))

\* list.pop(i)
ListRemove(queue, i) == SubSeq(queue, 1, i - 1) \o SubSeq(queue, i + 1, Len(queue))

PushDeque(queue, message, max) ==
  LET longer == Append(queue, message)
  IN IF Len(longer) > max THEN DequeRemove(longer, DropIndex(longer)) ELSE longer

PushList(queue, message, max) ==
  LET longer == Append(queue, message)
  IN IF Len(longer) > max THEN ListRemove(longer, DropIndex(longer)) ELSE longer

=============================================================================
