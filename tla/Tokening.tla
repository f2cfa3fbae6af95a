------------------------------ MODULE Tokening -----------------------------
(* cms/server/contest/tokening.py: how many tokens a contestant may play,  *)
(* when the next one is generated, and from when one may be played.  Times *)
(* are integers; a history is the sequence of the times of played tokens.  *)
EXTENDS Integers, Sequences, SequencesExt

CONSTANT None                  \* Python's None; no integer

\* min and max of the code.
Lesser(a, b) == IF a < b THEN a ELSE b
Greater(a, b) == IF a < b THEN b ELSE a

AtMost(avail, gen_max) == IF gen_max = None THEN avail ELSE Lesser(avail, gen_max)

(* generate_tokens: the periods that end in the interval, times gen_number.*)
(* The mutant counts them from the beginning of the interval.              *)
GenerateTokensFromBegin(rules, start, begin, end) ==
  rules.gen_number * ((end - begin) \div rules.gen_interval)

GenerateTokens(rules, start, begin, end) ==
  rules.gen_number *
    ((end - start) \div rules.gen_interval - (begin - start) \div rules.gen_interval)

(* "Simulate!": tokens left after the plays of the history, each capped.   *)
Play(rules, start, s, played) ==
  [avail |-> AtMost(s.avail + GenerateTokens(rules, start, s.prev, played),
                    rules.gen_max) - 1,
   prev |-> played]

AfterPlays(rules, start, history) ==
  LET after[n \in 0 .. Len(history)] ==
        IF n = 0 THEN [avail |-> rules.gen_initial, prev |-> start]
        ELSE Play(rules, start, after[n - 1], history[n])
  IN after[Len(history)]

(* _tokens_available, in finite mode.                                      *)
FiniteTokens(rules, start, history, timestamp) ==
  LET played == AfterPlays(rules, start, history)
      generated == AtMost(played.avail + GenerateTokens(rules, start, played.prev, timestamp),
                          rules.gen_max)
      left == rules.max_number - Len(history)
      capped == rules.max_number # None /\ generated >= left
      avail == IF capped THEN left ELSE generated
      growing == rules.gen_number > 0 /\ (rules.gen_max = None \/ generated < rules.gen_max)
      next_gen_time ==
        IF growing /\ ~capped
        THEN start + rules.gen_interval * ((timestamp - start) \div rules.gen_interval + 1)
        ELSE None
      expiration == IF history = <<>> THEN start ELSE Last(history) + rules.min_interval
  IN [avail |-> avail, next |-> next_gen_time,
      expiration |-> IF expiration <= timestamp \/ (avail = 0 /\ next_gen_time = None)
                     THEN None ELSE expiration]

(* _tokens_available.                                                      *)
TokensOf(rules, start, history, timestamp) ==
  CASE rules.mode = "disabled" -> [avail |-> 0, next |-> None, expiration |-> None]
    [] rules.mode = "infinite" -> [avail |-> -1, next |-> None, expiration |-> None]
    [] rules.mode = "finite" -> FiniteTokens(rules, start, history, timestamp)

(* The merge of tokens_available: the fewer tokens decide.                 *)
Later(a, b) == IF a = None THEN b ELSE IF b = None THEN a ELSE Greater(a, b)

Merged(contest, task) ==
  LET expiration == Later(contest.expiration, task.expiration)
      c == IF contest.avail = -1 THEN task.avail + 1 ELSE contest.avail
      t == IF task.avail = -1 THEN c + 1 ELSE task.avail
  IN IF contest.avail = -1 /\ task.avail = -1
     THEN [avail |-> -1, next |-> None, expiration |-> expiration]
     ELSE [avail |-> Lesser(c, t),
           next |-> CASE c < t -> contest.next
                      [] t < c -> task.next
                      [] OTHER -> IF contest.next = None \/ task.next = None THEN None
                                  ELSE Greater(contest.next, task.next),
           expiration |-> expiration]
=============================================================================
