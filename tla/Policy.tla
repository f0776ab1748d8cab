------------------------------- MODULE Policy -------------------------------
(* What the library packages/sync-core says of a path (evaluatePolicy,        *)
(* matchesPolicyPath), checked against a declarative reading of the patterns. *)
(* The functions are pure: a caller asks about one case.                      *)
EXTENDS Integers, Sequences, FiniteSetsExt

CONSTANTS
    Cases,   \* [path, rules]: what the caller asks of the policy
    HomeDir  \* segments of homeDir

VARIABLE asked   \* a case of the policy, or NoCase

-----------------------------------------------------------------------------
(* Paths.  A path or pattern is [root, segments]: root is "absolute", "relative" *)
(* or "home", a segment a sequence of characters.                               *)

Segments == Seq(Seq(STRING))
Paths == [root : {"absolute", "relative", "home"}, segments : Segments]
Rules == [pattern : Paths, action : STRING, mode : STRING]

ASSUME PolicyAssumption ==
    /\ HomeDir \in Segments
    /\ \A c \in Cases : c.path \in Paths /\ c.rules \in Seq(Rules)

AnyDepth == <<"*", "*">>

\* parsePolicyPath
Parsed(p) == [absolute |-> p.root # "relative",
              segments |-> IF p.root = "home" THEN HomeDir \o p.segments ELSE p.segments]

\* The first branch of matchSegment: a character matches one of the pattern.
Same(char, c) == char \in {"?", c}

\* How many characters match one by one, behind star in the pattern and retry in the value
Run(pattern, value, star, retry) ==
    Min({k \in 0 .. Len(value) - retry :
           \/ k = Len(value) - retry \/ star + k >= Len(pattern)
           \/ ~Same(pattern[star + k + 1], value[retry + k + 1])})

\* matchSegment: star is the place of the last * of the pattern that has been met (0: none),
\* retry the place in the value from which the rest of the pattern is tried.
MatchSegment(pattern, value) ==
    LET goes[at \in [star : 0..Len(pattern), retry : 0..Len(value)]] ==
          LET n == Run(pattern, value, at.star, at.retry)
              p == at.star + n
              v == at.retry + n
              more == v < Len(value)
              star == p < Len(pattern) /\ pattern[p + 1] = "*"
          IN  \/ ~more /\ \A i \in p + 1 .. Len(pattern) : pattern[i] = "*"
              \/ more /\ star /\ goes[[star |-> p + 1, retry |-> v]]
              \/ more /\ ~star /\ at.star > 0 /\ goes[[at EXCEPT !.retry = @ + 1]]
    IN  goes[[star |-> 0, retry |-> 0]]

\* An altered form: ** stands for at least one segment.
MatchDeeper(pattern, path) ==
    LET goes[at \in [p : 0..Len(pattern), v : 0..Len(path)]] ==
          IF at.p = Len(pattern) THEN at.v = Len(path)
          ELSE /\ at.v < Len(path)
               /\ IF pattern[at.p + 1] = AnyDepth
                  THEN goes[[p |-> at.p + 1, v |-> at.v + 1]] \/ goes[[at EXCEPT !.v = @ + 1]]
                  ELSE /\ MatchSegment(pattern[at.p + 1], path[at.v + 1])
                       /\ goes[[p |-> at.p + 1, v |-> at.v + 1]]
    IN  goes[[p |-> 0, v |-> 0]]

\* matchSegments, of what is left of the pattern and of the path
MatchSegments(pattern, path) ==
    LET goes[at \in [p : 0..Len(pattern), v : 0..Len(path)]] ==
          LET more == at.v < Len(path) IN
          IF at.p = Len(pattern) THEN ~more
          ELSE IF pattern[at.p + 1] = AnyDepth
          THEN goes[[at EXCEPT !.p = @ + 1]] \/ (more /\ goes[[at EXCEPT !.v = @ + 1]])
          ELSE /\ more /\ MatchSegment(pattern[at.p + 1], path[at.v + 1])
               /\ goes[[p |-> at.p + 1, v |-> at.v + 1]]
    IN  goes[[p |-> 0, v |-> 0]]

MatchesPolicyPath(path, pattern) ==
    LET target == Parsed(path)
        glob == Parsed(pattern)
    IN  /\ glob.absolute => target.absolute
        /\ \/ MatchSegments(glob.segments, target.segments)
           \/ ~glob.absolute /\ target.absolute
              /\ MatchSegments(<<AnyDepth>> \o glob.segments, target.segments)

\* What the rules up to each say of a field: a rule that matches and sets it ("" does not)
\* replaces what the rules before it say.
Decided(path, rules, field, default) ==
    LET said[n \in 0..Len(rules)] ==
          IF n = 0 THEN default
          ELSE IF MatchesPolicyPath(path, rules[n].pattern) /\ rules[n][field] # ""
               THEN rules[n][field] ELSE said[n - 1]
    IN  said[Len(rules)]

EvaluatePolicy(path, rules) ==
    [action |-> Decided(path, rules, "action", "sync"),
     mode |-> Decided(path, rules, "mode", "snapshot")]

-----------------------------------------------------------------------------
(* The caller. *)

NoCase == [rules |-> <<>>]

PolicyInit == asked = NoCase

PolicyNext == asked = NoCase /\ asked' \in Cases

PolicySpec == PolicyInit /\ [][PolicyNext]_asked

-----------------------------------------------------------------------------
(* Properties *)

\* The parts p+1..n of a pattern cover the parts v+1..m of a word: each that is wild any
\* number of them, each other one that it fits.
Covers(wild, fits, p, n, v, m) ==
    \E cut \in [p..n -> 0..m] :
        /\ cut[p] = v /\ cut[n] = m
        /\ \A i \in p + 1 .. n :
              IF i \in wild THEN cut[i - 1] <= cut[i]
              ELSE cut[i] = cut[i - 1] + 1 /\ <<i, cut[i]>> \in fits

Wild(pattern, star) == {i \in DOMAIN pattern : pattern[i] = star}

SegmentFits(p, s) ==
    Covers(Wild(p, "*"), {ic \in (DOMAIN p) \X (DOMAIN s) : Same(p[ic[1]], s[ic[2]])},
           0, Len(p), 0, Len(s))

\* The segments of a glob cover those of a path behind the n-th.
Reaches(glob, path, n) ==
    Covers(Wild(glob, AnyDepth), {ij \in (DOMAIN glob) \X (DOMAIN path) : SegmentFits(glob[ij[1]], path[ij[2]])},
           0, Len(glob), n, Len(path))

\* A relative pattern is about the end of an absolute path, any other about the whole.
Glob(path, pattern) ==
    LET t == Parsed(path)
        g == Parsed(pattern)
        from == IF ~g.absolute /\ t.absolute THEN 0..Len(t.segments) ELSE {0}
    IN  (g.absolute => t.absolute) /\ \E n \in from : Reaches(g.segments, t.segments, n)

LastThatSays(path, rules, field, default) ==
    LET said == {i \in DOMAIN rules : Glob(path, rules[i].pattern) /\ rules[i][field] # ""}
    IN  IF said = {} THEN default ELSE rules[Max(said)][field]

\* A * in a path: the code takes it for one of the pattern before it looks for a wildcard
\* (index.ts:337), so that * does not cover it.
Starred(path) ==
    LET t == Parsed(path).segments IN \E i \in DOMAIN t : \E j \in DOMAIN t[i] : t[i][j] = "*"

\* What the policy says of a path without * is what the last rule says whose pattern covers
\* it: the backtracking over *, ? and ** finds a match whenever there is one.
PolicyAsWritten == asked # NoCase /\ ~Starred(asked.path) =>
    EvaluatePolicy(asked.path, asked.rules) =
        [action |-> LastThatSays(asked.path, asked.rules, "action", "sync"),
         mode |-> LastThatSays(asked.path, asked.rules, "mode", "snapshot")]
=============================================================================
