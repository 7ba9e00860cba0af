----------------------------- MODULE RoundRobin -----------------------------
(***************************************************************************)
(* The pure part of the worker registry: the list of URLs that serve one   *)
(* node id and the counter that rotates through it.  The registry and the  *)
(* engine share these operators.  In the code the counter is a uint64, so  *)
(* CounterRange is 2^64; the models give it a small value to reach the     *)
(* wrap-around.                                                            *)
(***************************************************************************)
EXTENDS Naturals, Sequences

CONSTANT CounterRange
ASSUME CounterRangeAssumption == CounterRange \in Nat \ {0}

Counters == 0..(CounterRange - 1)

(* The inner loop of register: one URL is listed at most once per id.  The *)
(* slips: appending without the search, and assigning for appending.       *)
AlwaysAppended(urls, url) == Append(urls, url)
Overwritten(urls, url)    == <<url>>
Registered(urls, url) ==
  IF \E k \in 1..Len(urls) : urls[k] = url THEN urls ELSE Append(urls, url)

(* atomic.AddUint64(counter, 1): the sum wraps at the counter's width.     *)
(* The slip: a counter without a width.                                    *)
BumpUnbounded(count) == count + 1
Bump(count) == (count + 1) % CounterRange

(* urls[idx % len(urls)] with idx the value before the addition.  The slip:*)
(* stopping at the last URL instead of going round.                        *)
PickClamped(urls, count) == urls[IF count < Len(urls) THEN count + 1 ELSE Len(urls)]
Pick(urls, count) == urls[(count % Len(urls)) + 1]
=============================================================================
