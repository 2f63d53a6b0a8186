---------------------------- MODULE RandomStream ----------------------------
(***************************************************************************)
(* RNG (rng.cc, rng.h), the generator behind Random: two linear            *)
(* recurrences of order three, whose states can be moved on by one step or *)
(* by any number of steps at once, with matrices.  The moduli are          *)
(* parameters, and so are the precision of a double and the factor that    *)
(* keeps the products exact in it.                                         *)
(***************************************************************************)
EXTENDS Integers, SequencesExt

CONSTANTS
    m1, m2,                   \* the moduli, 4294967087 and 4294944443
    a12, a13n, a21, a23n,     \* the coefficients of the recurrences
    InvA1, InvA2,             \* the inverses of the matrices of one step
    A1p76, A2p76,             \* the tables of the next substream
    A1p127, A2p127,           \* the tables of the next stream
    two17, two53,             \* a factor is split in two; doubles are exact
    Bits,                     \* binary places of the numbers below, 109 or more
    Denominator,              \* of fact, the weight of a second number, 2^24
    MaxInt,                   \* MAXINT, a power of two less one
    SubJump, StreamJump,      \* the logarithms of the jumps, 76 and 127
    Seeds,                    \* the seeds a program sets
    Jumps,                    \* the arguments of advance_state
    MaxMoves                  \* bound of the position of the state

Matrices(m) == [1 .. 3 -> [1 .. 3 -> 0 .. m - 1]]

ASSUME RandomAssumption ==
    /\ m1 \in Nat /\ m2 \in Nat \ {0, 1} /\ m2 < m1
    /\ a12 \in 0 .. m1 - 1 /\ a13n \in 0 .. m1 - 1
    /\ a21 \in 0 .. m2 - 1 /\ a23n \in 0 .. m2 - 1
    /\ InvA1 \in Matrices(m1) /\ InvA2 \in Matrices(m2)
    /\ Denominator \in Nat \ {0, 1} /\ MaxInt \in Nat /\ MaxMoves \in Nat
    /\ SubJump \in Nat /\ StreamJump \in Nat
    /\ Seeds \subseteq Nat /\ Jumps \subseteq Int \X Int

\* What is multiplied is below 2^35 (rng.cc:608).
ASSUME PrecisionAssumption ==
    /\ two17 \in Nat \ {0} /\ two53 \in Nat /\ two53 % 2 = 0
    /\ 2 * two17 * m1 <= two53 /\ m1 * m1 <= two53 * two17

VARIABLES
    rng,          \* the stream: Cg_, Bg_ and Ig_, anti_ and inc_prec_
    next_seed,    \* RNG::next_seed_
    drawn,        \* the number the last call drew, if it drew one
    history       \* see below

vars == <<rng, next_seed, drawn, history>>

-----------------------------------------------------------------------------
(* Arithmetic *)

\* A double: a value beyond two53 loses its last bit.
Double(v) == IF v >= two53 \/ v <= -two53 THEN v - (v % 2) ELSE v

\* static_cast<long>(a / b): the quotient is cut off.
Cut(a, b) == IF a < 0 THEN -((-a) \div b) ELSE a \div b

\* The last lines of MultModM, and of each component of U01.
Rest(v, m) == IF v - Cut(v, m) * m < 0 THEN v - Cut(v, m) * m + m ELSE v - Cut(v, m) * m

\* (a*s + c) mod m in doubles.
MultModM(a, s, c, m) ==
    LET v    == Double(a * s + c)
        a1   == Cut(a, two17)
        low  == a - a1 * two17
        high == Double(a1 * s) - Cut(Double(a1 * s), m) * m
    IN  IF v >= two53 \/ v <= -two53
        THEN Rest(Double(high * two17 + low * s + c), m)
        ELSE Rest(v, m)

\* A*s mod m, one product after the other.
MatVecModM(A, s, m) ==
    [i \in 1 .. 3 |->
        MultModM(A[i][3], s[3],
            MultModM(A[i][2], s[2], MultModM(A[i][1], s[1], 0, m), m), m)]

\* A*B mod m, column by column.
MatMatModM(A, B, m) ==
    LET W == [j \in 1 .. 3 |-> MatVecModM(A, [i \in 1 .. 3 |-> B[i][j]], m)]
    IN  [i \in 1 .. 3 |-> [j \in 1 .. 3 |-> W[j][i]]]

Squared(B, m) == MatMatModM(B, B, m)

\* A^(2^e) by squaring.
MatTwoPowModM(A, m, e) ==
    LET B[i \in 0 .. e] == IF i = 0 THEN A ELSE Squared(B[i - 1], m) IN B[e]

Identity == << <<1, 0, 0>>, <<0, 1, 0>>, <<0, 0, 1>> >>

\* One round of the loop of MatPowModM.
PowRound(acc, m) ==
    IF acc.n = 0 THEN acc
    ELSE [W |-> Squared(acc.W, m), n |-> acc.n \div 2,
          B |-> IF acc.n % 2 = 1 THEN MatMatModM(acc.W, acc.B, m) ELSE acc.B]

\* A^n by the binary digits of n; n rounds are more than the loop needs.
MatPowModM(A, m, n) ==
    LET acc[i \in 0 .. n] == IF i = 0 THEN [W |-> A, n |-> n, B |-> Identity]
                             ELSE PowRound(acc[i - 1], m)
    IN  acc[n].B

A1p0 == << <<0, 1, 0>>, <<0, 0, 1>>, <<-a13n, a12, 0>> >>
A2p0 == << <<0, 1, 0>>, <<0, 0, 1>>, <<-a23n, 0, a21>> >>

\* "Inverse of A1p0", "Inverse of A2p0" (rng.cc:559, rng.cc:565).
ASSUME InverseAssumption ==
    /\ MatMatModM(A1p0, InvA1, m1) = Identity /\ MatMatModM(InvA1, A1p0, m1) = Identity
    /\ MatMatModM(A2p0, InvA2, m2) = Identity /\ MatMatModM(InvA2, A2p0, m2) = Identity

\* 2^e
TwoTo(e) == LET p[i \in 0 .. e] == IF i = 0 THEN 1 ELSE 2 * p[i - 1] IN p[e]

\* What the tables of the program are meant to be.
ASSUME TableAssumption ==
    /\ A1p76 = MatTwoPowModM(A1p0, m1, SubJump) /\ A2p76 = MatTwoPowModM(A2p0, m2, SubJump)
    /\ A1p127 = MatTwoPowModM(A1p0, m1, StreamJump)
    /\ A2p127 = MatTwoPowModM(A2p0, m2, StreamJump)

SubTables == <<A1p76, A2p76>>
StreamTables == <<A1p127, A2p127>>

\* Faulty variant: the products of a row are summed as they are, and no factor
\* is split.
Jump_direct(s, table) ==
    LET times(A, x, m) ==
            [i \in 1 .. 3 |-> Rest(Double(A[i][1] * x[1] + A[i][2] * x[2] + A[i][3] * x[3]), m)]
    IN  <<times(table[1], s[1], m1), times(table[2], s[2], m2)>>

\* A state is the pair of the components' states.
Jump(s, table) == <<MatVecModM(table[1], s[1], m1), MatVecModM(table[2], s[2], m2)>>

\* CheckSeed.
LegalSeed(s) ==
    /\ s[1] \in [1 .. 3 -> 0 .. m1 - 1] /\ s[1] # <<0, 0, 0>>
    /\ s[2] \in [1 .. 3 -> 0 .. m2 - 1] /\ s[2] # <<0, 0, 0>>

-----------------------------------------------------------------------------
(* One step and one number.  The number 1 is One, with so many binary places *)
(* that every double that occurs is a multiple of (m1 + 1), and norm, before *)
(* it is rounded, is TwoTo(Bits).                                            *)

One == (m1 + 1) * TwoTo(Bits)

\* norm has a precision of two53, and so has its product with fact.
ASSUME RoundingAssumption ==
    /\ 4 * (m1 + 1) <= two53
    /\ Bits \in Nat /\ (m1 + 1) * two53 * Denominator <= TwoTo(Bits)

\* The distance of the doubles near v.
Spacing(v) ==
    LET size == IF v < 0 THEN -v ELSE v
    IN  (m1 + 1) * TwoTo(Min({i \in 0 .. Bits : size \div ((m1 + 1) * TwoTo(i)) < two53}))

\* The double that a result v is rounded to, of two the even one.
Nearest(v) ==
    LET s == Spacing(v)
        q == v \div s
        r == v % s
    IN  IF 2 * r > s \/ (2 * r = s /\ q % 2 = 1) THEN (q + 1) * s ELSE q * s

norm == Nearest(TwoTo(Bits))

\* Faulty variant: a negative remainder is left as it is.
Step_keepsSign(s) ==
    LET r(v, m) == v - Cut(v, m) * m
    IN  << <<s[1][2], s[1][3], r(a12 * s[1][2] - a13n * s[1][1], m1)>>,
           <<s[2][2], s[2][3], r(a21 * s[2][3] - a23n * s[2][1], m2)>> >>

\* The state after U01.
Step(s) == << <<s[1][2], s[1][3], Rest(a12 * s[1][2] - a13n * s[1][1], m1)>>,
              <<s[2][2], s[2][3], Rest(a21 * s[2][3] - a23n * s[2][1], m2)>> >>

\* Faulty variant: two equal components give 0.
Combined_zero(p1, p2) == IF p1 >= p2 THEN p1 - p2 ELSE p1 - p2 + m1
Combined(p1, p2) == IF p1 > p2 THEN p1 - p2 ELSE p1 - p2 + m1

\* What U01 returns with the state s it leaves.
U01(s, anti) ==
    LET u == Nearest(Combined(s[1][3], s[2][3]) * norm)
    IN  IF anti THEN Nearest(One - u) ELSE u

\* What U01d returns with the states s and t that its two calls of U01 leave.
U01d(s, t, anti) ==
    LET u == Nearest(U01(s, anti)
                     + (IF anti THEN -(Nearest(One - U01(t, anti)) \div Denominator)
                                ELSE U01(t, anti) \div Denominator))
    IN  IF anti THEN IF u < 0 THEN Nearest(u + One) ELSE u
        ELSE IF u < One THEN u ELSE Nearest(u - One)

\* rand_u01, in the state s.
Uniform(s) == IF rng.inc THEN U01d(Step(s), Step(Step(s)), rng.anti) ELSE U01(Step(s), rng.anti)

\* rand_int for the number u; high - low + 1 is a power of two where it is used.
RandInt(low, high, u) == low + ((high - low + 1) * u) \div One

-----------------------------------------------------------------------------
(* The operations of a stream.  history says which seed the stream and the   *)
(* package started from, and how many steps from it Cg_, Bg_ and Ig_ and the *)
(* next stream should be; only the properties use it.                        *)

Nothing == [u |-> 1, int |-> 0, anti |-> FALSE, inc |-> FALSE]
Forget == drawn' = Nothing

Vector(k) == << <<k, k, k>>, <<k, k, k>> >>

\* RNG::init, with the package seed s, which is p steps from the seed k.
InitStream(s, k, p) ==
    /\ rng' = [Cg |-> s, Bg |-> s, Ig |-> s, anti |-> FALSE, inc |-> FALSE]
    /\ next_seed' = Jump(s, StreamTables)
    /\ history' = [seed |-> k, cur |-> p, sub |-> p, start |-> p,
                   package |-> k, next |-> p + TwoTo(StreamJump)]

\* The one stream of Random, made from the package's own seed.
Init ==
    \E k \in Seeds :
        /\ LegalSeed(Vector(k))
        /\ rng = [Cg |-> Vector(k), Bg |-> Vector(k), Ig |-> Vector(k),
                  anti |-> FALSE, inc |-> FALSE]
        /\ next_seed = Jump(Vector(k), StreamTables)
        /\ drawn = Nothing
        /\ history = [seed |-> k, cur |-> 0, sub |-> 0, start |-> 0,
                      package |-> k, next |-> TwoTo(StreamJump)]

\* set_seed of a number, which is a new seed for the package too.
SetSeed(k) ==
    /\ LegalSeed(Vector(k))      \* otherwise the program aborts
    /\ InitStream(Vector(k), k, 0)
    /\ Forget

\* set_seed of a vector: only this stream.
SetSeedVector(k) ==
    /\ LegalSeed(Vector(k))
    /\ rng' = [rng EXCEPT !.Cg = Vector(k), !.Bg = Vector(k), !.Ig = Vector(k)]
    /\ history' = [history EXCEPT !.seed = k, !.cur = 0, !.sub = 0, !.start = 0]
    /\ Forget /\ UNCHANGED next_seed

\* The stream is made anew, behind the ones made before it.
NextStream ==
    /\ history.next <= MaxMoves
    /\ InitStream(next_seed, history.package, history.next)
    /\ Forget

\* rand_u01, and what rand_int would make of its number.
Draw ==
    /\ LET next  == Step(rng.Cg)
           steps == IF rng.inc THEN 2 ELSE 1
       IN  /\ history.cur + steps <= MaxMoves
           /\ rng' = [rng EXCEPT !.Cg = IF rng.inc THEN Step(next) ELSE next]
           /\ history' = [history EXCEPT !.cur = @ + steps]
    /\ drawn' = [u |-> Uniform(rng.Cg), int |-> RandInt(0, MaxInt, Uniform(rng.Cg)),
                anti |-> rng.anti, inc |-> rng.inc]
    /\ UNCHANGED next_seed

ResetStartStream ==
    /\ rng' = [rng EXCEPT !.Cg = rng.Ig, !.Bg = rng.Ig]
    /\ history' = [history EXCEPT !.cur = history.start, !.sub = history.start]
    /\ Forget /\ UNCHANGED next_seed

ResetStartSubstream ==
    /\ rng' = [rng EXCEPT !.Cg = rng.Bg]
    /\ history' = [history EXCEPT !.cur = history.sub]
    /\ Forget /\ UNCHANGED next_seed

ResetNextSubstream ==
    /\ history.sub + TwoTo(SubJump) <= MaxMoves
    /\ LET s == Jump(rng.Bg, SubTables) IN rng' = [rng EXCEPT !.Cg = s, !.Bg = s]
    /\ history' = [history EXCEPT !.sub = @ + TwoTo(SubJump), !.cur = history.sub + TwoTo(SubJump)]
    /\ Forget /\ UNCHANGED next_seed

\* The matrix of advance_state for one component.
Advanced(A, InvA, m, e, c) ==
    LET power == IF c >= 0 THEN MatPowModM(A, m, c) ELSE MatPowModM(InvA, m, -c)
        two   == IF e > 0 THEN MatTwoPowModM(A, m, e) ELSE MatTwoPowModM(InvA, m, -e)
    IN  IF e = 0 THEN power ELSE MatMatModM(two, power, m)

\* Both matrices, for each argument of advance_state.
Advances == [j \in Jumps |-> << Advanced(A1p0, InvA1, m1, j[1], j[2]),
                                Advanced(A2p0, InvA2, m2, j[1], j[2]) >>]

\* advance_state.
AdvanceState(e, c) ==
    /\ LET n == (IF e > 0 THEN TwoTo(e) ELSE IF e < 0 THEN -TwoTo(-e) ELSE 0) + c
       IN  /\ history.cur + n \in -MaxMoves .. MaxMoves
           /\ history' = [history EXCEPT !.cur = @ + n]
    /\ rng' = [rng EXCEPT !.Cg = Jump(@, Advances[<<e, c>>])]
    /\ Forget /\ UNCHANGED next_seed

SetAntithetic == rng' = [rng EXCEPT !.anti = ~@] /\ Forget /\ UNCHANGED <<next_seed, history>>
IncreasedPrecis == rng' = [rng EXCEPT !.inc = ~@] /\ Forget /\ UNCHANGED <<next_seed, history>>

Next ==
    \/ \E k \in Seeds : SetSeed(k) \/ SetSeedVector(k)
    \/ NextStream \/ Draw \/ ResetStartStream \/ ResetStartSubstream
    \/ ResetNextSubstream
    \/ \E j \in Jumps : AdvanceState(j[1], j[2])
    \/ SetAntithetic \/ IncreasedPrecis

Spec == Init /\ [][Next]_vars

-----------------------------------------------------------------------------
(* Properties *)

\* The one state from which a step leads to s.
Before(s) ==
    << CHOOSE x \in [1 .. 3 -> 0 .. m1 - 1] : Step(<<x, s[2]>>)[1] = s[1],
       CHOOSE y \in [1 .. 3 -> 0 .. m2 - 1] : Step(<<s[1], y>>)[2] = s[2] >>

\* The states that steps lead to from the seed k, forwards and backwards.
Orbit(k) ==
    LET o[n \in Int] == IF n = 0 THEN Vector(k)
                        ELSE IF n > 0 THEN Step(o[n - 1]) ELSE Before(o[n + 1])
    IN  o
Orbits == [k \in Seeds |-> [n \in -MaxMoves .. MaxMoves + TwoTo(StreamJump) |-> Orbit(k)[n]]]

\* Type invariant: all states are legal seeds, so that no component of a stream
\* is stuck at 0 and CheckSeed would accept what get_state returns.
TypeOK ==
    /\ LegalSeed(rng.Cg) /\ LegalSeed(rng.Bg) /\ LegalSeed(rng.Ig) /\ LegalSeed(next_seed)
    /\ rng.anti \in BOOLEAN /\ rng.inc \in BOOLEAN

\* Whatever jumps, resets and draws a program makes, a stream is where as many
\* single steps would have brought it: the matrices and their inverses move
\* the state as U01 does (rng.cc:941), substreams and streams begin at the
\* distances rng.h promises, and the state of one stream never depends on the
\* draws of another.
StreamsFollowTheSteps ==
    /\ rng.Cg = Orbits[history.seed][history.cur]
    /\ rng.Bg = Orbits[history.seed][history.sub]
    /\ rng.Ig = Orbits[history.seed][history.start]
    /\ next_seed = Orbits[history.package][history.next]

\* "Returns a (pseudo)random number from the uniform distribution over the
\* interval (0, 1)" (rng.h:224).  With increased precision the number may be 0,
\* and it may be 1 when it is antithetic too: U01d then adds 1 to a negative
\* number that is too small to change it (rng.cc:785).  In that case only,
\* rand_int exceeds its bounds, by one.
DrawsAreInRange ==
    /\ drawn.u \in 0 .. One
    /\ drawn.u = 0 => drawn.inc
    /\ drawn.u = One => drawn.anti /\ drawn.inc
    /\ drawn.int \in 0 .. MaxInt + 1
    /\ drawn.int > MaxInt => drawn.u = One

\* "Returns a (pseudo)random number from the discrete uniform distribution over
\* the integers {i, i +1,...,j}" (rng.h:235), for rand_int(0, MAXINT), which
\* uniform_positive_int returns as a number of the "range [0, MAXINT]"
\* (rng.h:244).
RandIntInRange == drawn.int \in 0 .. MaxInt
=============================================================================
