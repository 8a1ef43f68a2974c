----------------------------- MODULE WebBudget -----------------------------
(***************************************************************************)
(* How a web answer is cut to the bytes a model may be handed: every result  *)
(* gets a fair share of what the fixed parts leave, and what encoding makes   *)
(* of the contents is then shrunk until it fits.  Sizes are bytes; a cut that *)
(* would split a character loses up to three more, which is left out.         *)
(***************************************************************************)
EXTENDS Integers, Sequences, FiniteSets, Folds

CONSTANTS MaxResults, MaxContent, MaxBytes, Base, PerResult, Slack   \* the code's: 32 and 48 KiB, 512

VARIABLES desired,   \* the contents of the results, capped per result
          weight,    \* what a byte of them takes once it is encoded
          answer     \* the contents returned
vars == <<desired, weight, answer>>
NotYet == <<-1>>

Total(s) == MapThenFoldSet(+, 0, LAMBDA i : s[i], LAMBDA S : CHOOSE i \in S : TRUE, DOMAIN s)
Least(a, b) == IF a <= b THEN a ELSE b

Init ==
    /\ \E n \in 0 .. MaxResults : desired \in [1 .. n -> 0 .. MaxContent]
    /\ weight \in 1 .. 2 /\ answer = NotYet

\* fairTruncateWebContents: whoever fits its share of what remains is given
\* all it wants, until nobody does; those left get the share.
TruncateOnce(ls, max) == [i \in DOMAIN ls |-> Least(ls[i], max \div Len(ls))]
FairTruncate(ls, max) ==
    LET rounds[pending \in SUBSET DOMAIN ls] ==
            LET rest == max - Total([i \in DOMAIN ls \ pending |-> ls[i]])
                share == rest \div Cardinality(pending)
                fit == {i \in pending : ls[i] <= share}
            IN  IF pending = {} THEN ls
                ELSE IF fit # {} /\ share > 0 THEN rounds[pending \ fit]
                ELSE [i \in DOMAIN ls |-> IF i \in pending THEN share ELSE ls[i]]
    IN  IF max <= 0 THEN [i \in DOMAIN ls |-> 0] ELSE rounds[DOMAIN ls]

\* marshaledWebBytes.
Encoded(contents) == Base + PerResult * Len(contents) + weight * Total(contents)

\* shrinkWebSearchResponse and shrinkWebExtractResponse: halve the longest
\* content; once all are empty, drop results down to one.
Longest(s) == CHOOSE i \in DOMAIN s : \A j \in DOMAIN s : s[j] < s[i] \/ (s[j] = s[i] /\ i <= j)
Done(s) == Encoded(s) <= MaxBytes \/ (Total(s) = 0 /\ Len(s) <= 1)
Smaller(s) ==
    IF Total(s) > 0 THEN [s EXCEPT ![Longest(s)] = @ \div 2] ELSE SubSeq(s, 1, Len(s) - 1)
Shrunk(contents) ==
    LET steps == MaxResults * (MaxContent + 1)
        s[n \in 0 .. steps] == IF n = 0 THEN contents
                               ELSE LET before == s[n - 1]
                                    IN  IF Done(before) THEN before ELSE Smaller(before)
    IN  s[steps]

\* fitWebSearchResponseBudget and fitWebExtractResponseBudget.
Available == MaxBytes - (Base + PerResult * Len(desired)) - Slack
Fit == answer' = Shrunk(FairTruncate(desired, Available))

Next == answer = NotYet /\ Fit /\ UNCHANGED <<desired, weight>>
Spec == Init /\ [][Next]_vars

-----------------------------------------------------------------------------
\* The fairest cut: the highest level at which everything above it is cut off.
Level(max) == CHOOSE l \in 0 .. MaxContent :
    /\ Total([i \in DOMAIN desired |-> Least(desired[i], l)]) <= max
    /\ l < MaxContent => Total([i \in DOMAIN desired |-> Least(desired[i], l + 1)]) > max

\* Shares are the fairest there are: no result is cut while a longer one keeps
\* more, and no byte that could be dealt out is kept back.
SharesAreFair ==
    Available > 0 => FairTruncate(desired, Available) = [i \in DOMAIN desired |-> Least(desired[i], Level(Available))]

\* The encoded answer fits, or it is the fixed parts and one empty result
\* that are too long; what fits from the start comes whole.
AnswerFits ==
    answer # NotYet =>
        /\ Done(answer)
        /\ Total(desired) <= Available /\ weight = 1 => answer = desired
        /\ Len(answer) < Len(desired) => Total(answer) = 0
=============================================================================
