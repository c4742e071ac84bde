------------------------------ MODULE GlobMatch ------------------------------
(* Whether a pattern of never_trash or only_trash matches a path             *)
(* (trashd-common/src/config.rs and store.rs, and the same again in          *)
(* trashd-preload/src/lib.rs): three shortcuts for common forms, and a       *)
(* matcher with one point to go back to, tried at every component of the     *)
(* path for a relative pattern.  Text is a sequence of characters.           *)
EXTENDS Naturals, SequencesExt

CONSTANTS
  Patterns, TextPaths,
  Code              \* [character -> Nat], the order of characters

Special == {"*", "?", "[", "\\"}

VARIABLES
  pattern, path,
  from,             \* where in the path the pattern is tried
  pi, ti,           \* the next character of each
  star, upto,       \* the last *, 0 without one, and how far it reaches
  pc,               \* "rules", "scan" or "done"
  matched
input == <<pattern, path>>
scan == <<from, pi, ti, star, upto>>
vars == <<input, scan, pc, matched>>

N == Len(pattern)
M == Len(path)
Plain(s) == Range(s) \cap Special = {}
StartsWith(k, s) == k + Len(s) <= M + 1 /\ SubSeq(path, k, k + Len(s) - 1) = s
\* where a component begins
Begins(k) == k = 1 \/ (k > 1 /\ path[k - 1] = "/")
Absolute(p) == p # <<>> /\ p[1] \in {"/", "*"}

-----------------------------------------------------------------------------
(* pattern_matches: the shortcuts *)

Prefixed == N > 0 /\ pattern[N] = "*" /\ Plain(Front(pattern))
Component == N > 2 /\ pattern[1] = "*" /\ pattern[2] = "/"
             /\ Plain(SubSeq(pattern, 3, N)) /\ "/" \notin Range(SubSeq(pattern, 3, N))
Suffixed == N > 0 /\ pattern[1] = "*" /\ Plain(Tail(pattern))

Return(answer) == pc' = "done" /\ matched' = answer /\ UNCHANGED <<input, scan>>
ByPrefix ==
  /\ pc = "rules" /\ Prefixed
  /\ Return(\E k \in 1 .. M + 1 :
       StartsWith(k, Front(pattern)) /\ (k = 1 \/ (Begins(k) /\ (N = 1 \/ pattern[1] # "/"))))
ByComponent ==
  /\ pc = "rules" /\ ~Prefixed /\ Component
  /\ Return(\E k \in 1 .. M + 1 :
       /\ Begins(k) /\ StartsWith(k, SubSeq(pattern, 3, N))
       /\ (k + N - 2 = M + 1 \/ path[k + N - 2] = "/"))
BySuffix ==
  /\ pc = "rules" /\ ~Prefixed /\ ~Component /\ Suffixed
  /\ Return(M + 2 > N /\ StartsWith(M + 2 - N, Tail(pattern)))
ByGlob == /\ pc = "rules" /\ ~Prefixed /\ ~Component /\ ~Suffixed
          /\ pc' = "scan" /\ UNCHANGED <<input, scan, matched>>

-----------------------------------------------------------------------------
(* simple_glob_match *)

\* class_match: the index after the class at start, if it is closed, and whether c is in it
ClassMatch(start, c) ==
  LET negate == start < N /\ pattern[start + 1] \in {"!", "^"}
      begin == start + (IF negate THEN 2 ELSE 1)
      Spans(i) == i + 2 <= N /\ pattern[i + 1] = "-" /\ pattern[i + 2] # "]"
      Has(i) == IF Spans(i) THEN Code[pattern[i]] <= Code[c] /\ Code[c] <= Code[pattern[i + 2]]
                ELSE pattern[i] = c
      Class[i \in 1 .. N + 1] ==
        IF i = N + 1 THEN [next |-> 0, in |-> FALSE]
        ELSE IF pattern[i] = "]" /\ i # begin THEN [next |-> i + 1, in |-> negate]
        ELSE LET later == Class[i + (IF Spans(i) THEN 3 ELSE 1)]
             IN [later EXCEPT !.in = IF Has(i) THEN ~negate ELSE @]
  IN IF begin > N THEN [next |-> 0, in |-> FALSE] ELSE Class[begin]

Literal == pattern[pi] = path[ti]
\* the index in the pattern after one character of the path, 0 if it does not match
After ==
  IF pi > N \/ ti > M THEN 0
  ELSE LET char == pattern[pi]
           class == ClassMatch(pi, path[ti])
       IN CASE char = "?" -> pi + 1
            [] char = "\\" /\ pi < N -> IF pattern[pi + 1] = path[ti] THEN pi + 2 ELSE 0
            [] char = "[" /\ class.next # 0 -> IF class.in THEN class.next ELSE 0
            [] OTHER -> IF Literal THEN pi + 1 ELSE 0

Scanning == pc = "scan" /\ UNCHANGED input
Stays == UNCHANGED <<pc, matched, from>>
AtStar == pi <= N /\ pattern[pi] = "*"
Star ==
  /\ Scanning /\ AtStar /\ Stays
  /\ star' = pi /\ upto' = ti /\ pi' = pi + 1 /\ UNCHANGED ti
Eat ==
  /\ Scanning /\ ~AtStar /\ After # 0 /\ Stays
  /\ pi' = After /\ ti' = ti + 1 /\ UNCHANGED <<star, upto>>
Stuck == ~AtStar /\ After = 0
AtEnd == pi = N + 1 /\ ti = M + 1
Accept == Scanning /\ Stuck /\ AtEnd /\ Return(TRUE)
Retry == upto + 1
More == upto <= M
\* the last * takes one more character
GoBack ==
  /\ Scanning /\ Stuck /\ ~AtEnd /\ star # 0 /\ More /\ Stays
  /\ upto' = Retry /\ ti' = Retry /\ pi' = star + 1 /\ UNCHANGED star

Failed == Stuck /\ ~AtEnd /\ (star = 0 \/ ~More)
\* a relative pattern is tried at the next component
Further == IF Absolute(pattern) THEN {} ELSE {k \in from + 1 .. M + 1 : Begins(k)}
NextComponent ==
  /\ Scanning /\ Failed /\ UNCHANGED <<pc, matched>>
  /\ \E k \in Further :
       /\ \A l \in Further : k <= l
       /\ from' = k /\ ti' = k
  /\ pi' = 1 /\ star' = 0 /\ upto' = 1
Reject == Scanning /\ Failed /\ Further = {} /\ Return(FALSE)

Init ==
  /\ pattern \in Patterns /\ path \in TextPaths
  /\ from = 1 /\ pi = 1 /\ ti = 1 /\ star = 0 /\ upto = 1 /\ pc = "rules" /\ matched = FALSE
Next == \/ ByPrefix \/ ByComponent \/ BySuffix \/ ByGlob
        \/ Star \/ Eat \/ Accept \/ GoBack \/ NextComponent \/ Reject
\* the call runs on
Spec == Init /\ [][Next]_vars /\ WF_vars(Next)

-----------------------------------------------------------------------------
(* Properties *)

\* Types; nothing is read beyond the ends, and the star reaches no further than the text read.
TypeOK ==
  /\ from \in 1 .. M + 1 /\ pi \in 1 .. N + 1 /\ ti \in from .. M + 1
  /\ star < pi /\ upto \in 1 .. M + 1 /\ (star # 0 => upto <= ti)

\* fnmatch(3) without special treatment of a /, read from the documentation: what a pattern
\* matches, for classes of up to three members.
Closing(i) ==
  LET body == IF i < N /\ pattern[i + 1] \in {"!", "^"} THEN i + 2 ELSE i + 1
      ends == {k \in body + 1 .. N : pattern[k] = "]"}
  IN [body |-> body, end |-> IF ends = {} THEN 0 ELSE CHOOSE k \in ends : \A l \in ends : k <= l]
Members(i) ==
  LET s == SubSeq(pattern, Closing(i).body, Closing(i).end - 1)
      listed == IF Len(s) = 3 /\ s[2] = "-"
                THEN {c \in DOMAIN Code : Code[s[1]] <= Code[c] /\ Code[c] <= Code[s[3]]}
                ELSE Range(s)
  IN IF Closing(i).body = i + 2 THEN DOMAIN Code \ listed ELSE listed
Fits == LET F[i \in 1 .. N + 1, j \in 1 .. M + 1] ==
  IF i = N + 1 THEN j = M + 1
  ELSE CASE pattern[i] = "*" -> F[i + 1, j] \/ (j <= M /\ F[i, j + 1])
         [] pattern[i] = "?" -> j <= M /\ F[i + 1, j + 1]
         [] pattern[i] = "\\" /\ i < N -> j <= M /\ pattern[i + 1] = path[j] /\ F[i + 2, j + 1]
         [] pattern[i] = "[" /\ Closing(i).end # 0 ->
              j <= M /\ path[j] \in Members(i) /\ F[Closing(i).end + 1, j + 1]
         [] OTHER -> j <= M /\ pattern[i] = path[j] /\ F[i + 1, j + 1]
  IN F
\* The shortcuts, the single point to go back to and the restarts at each component
\* give what the documentation says: the whole path fits the pattern, or what follows a
\* component's beginning fits a relative one, or */name names one of the components.
Named == LET name == SubSeq(pattern, 3, N)
         IN \E i, j \in 1 .. M + 1 : /\ i <= j /\ Begins(i) /\ (j = M + 1 \/ path[j] = "/")
                                     /\ SubSeq(path, i, j - 1) = name
Right == pc = "done" =>
  (matched <=> IF Component /\ ~Prefixed THEN Named
               ELSE \E k \in 1 .. M + 1 : Fits[1, k] /\ (k = 1 \/ (Begins(k) /\ ~Absolute(pattern))))
=============================================================================
