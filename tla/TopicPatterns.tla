---------------------------- MODULE TopicPatterns ----------------------------
(***************************************************************************)
(* Topic matching of the chapter 7 event broker                            *)
(* (src/chapters/ch07_pub_sub/broker.py, EventBroker._matches).            *)
(*                                                                         *)
(* A topic "order.status.changed" is the sequence of its dot-separated     *)
(* segments, a pattern is such a sequence in which a segment may be a      *)
(* wildcard.  The code turns '#' into '**' and hands the pattern to        *)
(* fnmatch, for which '*' and '**' both stand for any run of characters,   *)
(* dots included: a wildcard segment spans one or more topic segments.     *)
(* Wildcards inside a segment ("ord*") are not modelled: no caller uses    *)
(* them.                                                                   *)
(***************************************************************************)
EXTENDS Naturals, Sequences

Star == "*"
Hash == "#"

(* pattern.replace("#", "**"): what is left of the difference between the  *)
(* two wildcards once fnmatch reads the pattern.                           *)
IsWildcard(segment) == segment \in {Star, Hash}

(* A cut assigns to each pattern position the last topic segment it        *)
(* covers; position 0 is the start of the topic.                           *)
Cuts(pattern, topic) == [0 .. Len(pattern) -> 0 .. Len(topic)]

Matches(pattern, topic) ==
    \E cut \in Cuts(pattern, topic) :
        /\ cut[0] = 0
        /\ cut[Len(pattern)] = Len(topic)
        /\ \A i \in 1 .. Len(pattern) :
              IF IsWildcard(pattern[i])
              THEN cut[i] > cut[i - 1]
              ELSE /\ cut[i] = cut[i - 1] + 1
                   /\ pattern[i] = topic[cut[i]]
==============================================================================
