------------------------------ MODULE RateLimits ------------------------------
(***************************************************************************)
(* How calls are spaced: the token bucket under every HTTP and RPC call,   *)
(* held during its sleep; and the board client's limiter, which hands out  *)
(* slots under its lock and sleeps outside it.  Time is in ticks; a sleep  *)
(* ends on time or late.                                                   *)
(***************************************************************************)
EXTENDS Integers, Sequences, SequencesExt

Later(a, b) == IF a > b THEN a ELSE b
Least(a, b) == IF a < b THEN a ELSE b

-----------------------------------------------------------------------------
(***************************************************************************)
(* TokenBucket, with the capacity of one that RateLimitedHttp gives it.    *)
(* Tokens are counted in ticks: a whole one is interval of them.           *)
(***************************************************************************)
FullBucket(interval) == [last |-> 0, tokens |-> interval]

Refilled(b, now, interval) ==
  [last |-> now, tokens |-> Least(interval, b.tokens + (now - b.last))]

(* acquire, by a caller that has the lock at time at and whose sleep, if   *)
(* it has to sleep, ends late ticks late.                                  *)
Acquire(b, at, late, interval) ==
  LET r == Refilled(b, at, interval)
      awake == Refilled(r, at + (interval - r.tokens) + late, interval)
  IN IF r.tokens >= interval THEN [r EXCEPT !.tokens = @ - interval]
     ELSE [awake EXCEPT !.tokens = Later(@, interval) - interval]

-----------------------------------------------------------------------------
(***************************************************************************)
(* One JSON-RPC call: HttpRpc.call over RateLimitedHttp.request.  A run is *)
(* [bucket, now, sent, errors, done]: sent holds the times of the requests, *)
(* errors their outcomes as the error window has them.  replies are what   *)
(* the endpoints answer, request by request.                               *)
(***************************************************************************)
Replies == {"ok", "429", "4xx", "5xx", "unreachable", "unreadable", "shapeless", "error"}

StartCall(bucket, now) ==
  [bucket |-> bucket, now |-> now, sent |-> <<>>, errors |-> <<>>, done |-> "no"]

(* (A retry that takes no token.)                                          *)
RetryAtOnce(run, late, interval) ==
  [run EXCEPT !.sent = Append(@, run.now)]

(* Take a token and send.                                                  *)
Request(run, late, interval) ==
  LET b == Acquire(run.bucket, run.now, late, interval)
  IN [run EXCEPT !.bucket = b, !.now = b.last, !.sent = Append(@, b.last)]

(* An endpoint: retries on 429 alone, after a backoff, at most max429.     *)
Endpoint(run, replies, late, backoff, max429, interval) ==
  LET try[k \in 0 .. max429] ==
        LET r == IF k = 0 THEN run ELSE try[k - 1]
            reply == replies[Len(r.sent) + 1]
            asked == IF k = 0 THEN Request(r, late[Len(r.sent) + 1], interval)
                     ELSE Request([r EXCEPT !.now = @ + backoff], late[Len(r.sent) + 1], interval)
        IN IF k > 0 /\ r.done # "retry" THEN r
           ELSE CASE reply = "429" /\ k < max429 -> [asked EXCEPT !.done = "retry"]
                  [] reply = "ok" -> [asked EXCEPT !.errors = Append(@, FALSE), !.done = "result"]
                  [] reply \in {"4xx", "error"} ->
                       [asked EXCEPT !.errors = Append(@, TRUE), !.done = "refused"]
                  [] reply = "shapeless" -> [asked EXCEPT !.errors = Append(@, FALSE), !.done = "no"]
                  [] OTHER -> [asked EXCEPT !.errors = Append(@, TRUE), !.done = "no"]
  IN try[max429]

(* The endpoints in order, until one gives a result or refuses.            *)
Call(bucket, now, replies, late, backoff, max429, urls, interval) ==
  LET upto[u \in 0 .. urls] ==
        IF u = 0 THEN StartCall(bucket, now)
        ELSE IF upto[u - 1].done # "no" THEN upto[u - 1]
        ELSE Endpoint(upto[u - 1], replies, late, backoff, max429, interval)
  IN upto[urls]

-----------------------------------------------------------------------------
(***************************************************************************)
(* RateLimiter: next is the slot it would hand out, 0 before the first.    *)
(***************************************************************************)
(* (Every caller waits for the same slot.)                                 *)
WaitTogether(next, now, interval) ==
  IF next <= now THEN [slot |-> now, next |-> now + interval]
  ELSE [slot |-> next, next |-> next]

(* acquire's block under the lock.                                         *)
Reserve(next, now, interval) ==
  IF next <= now THEN [slot |-> now, next |-> now + interval]
  ELSE [slot |-> next, next |-> next + interval]

(* The slots of callers that ask at the times arrivals, in that order.     *)
Slots(arrivals, interval) ==
  LET res[k \in 0 .. Len(arrivals)] ==
        IF k = 0 THEN [slot |-> 0, next |-> 0]
        ELSE Reserve(res[k - 1].next, arrivals[k], interval)
  IN [k \in DOMAIN arrivals |-> res[k].slot]

(* _read and _send: every attempt of a read takes a slot; it is made again *)
(* on 429 alone, after a backoff, at most max429 times.  replies are what  *)
(* the board answers.  (A post is a single attempt.)                       *)
Read(next, now, replies, backoff, max429, interval) ==
  LET try[k \in 0 .. max429] ==
        LET prev == IF k = 0 THEN [next |-> next, now |-> now, sent |-> <<>>] ELSE try[k - 1]
            asked == IF k = 0 THEN now ELSE prev.now + backoff
            got == Reserve(prev.next, asked, interval)
        IN IF \E j \in 1 .. k : replies[j] # "429" THEN prev
           ELSE [next |-> got.next, now |-> got.slot, sent |-> Append(prev.sent, got.slot)]
  IN try[max429]
=============================================================================
