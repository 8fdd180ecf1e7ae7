----------------------------- MODULE SefdmTables -----------------------------
(* The tables of sefdm/algorythms/test.list.161.c and the way main takes        *)
(* through them: symbols, carriers, their correlation, the modulated and the    *)
(* noisy signal, the inverse of the correlation and the product that checks it. *)
(* Each function of the program runs to its end, so each is one step; invert    *)
(* takes one per round of its elimination.                                      *)
(*                                                                             *)
(* A double becomes a residue modulo Prime and a node's value a pair of them,   *)
(* real and imaginary: sums and products are exact, and what holds for the      *)
(* doubles but for rounding holds for the residues. Samples of sin and          *)
(* cos are drawn from Waves. divide_array_by_double rounds what it divides up   *)
(* to a multiple of 10^-6: residues have no order, so this becomes any function *)
(* that keeps 0 and 1, which ceil keeps too. The norms (sqrt) and sigma are     *)
(* left out.                                                                    *)
EXTENDS Integers, Sequences

CONSTANTS
    Carriers,      \* NUM_CARRIERS
    Blocks,        \* NUM_BLOCKS
    Oversampling,  \* OVERSAMPLING
    Prime,         \* the modulus of the residues
    Waves,         \* the values of a carrier's samples
    Roundings,     \* what ceil(x * 1000000) / 1000000 may make of the residues
    Signals,       \* what random_X and create_IP_BLOCKS may put into IP_SIG
    Noises         \* what create_noise may put into AWGN

Value == (0..Prime - 1) \X (0..Prime - 1)

ASSUME TablesAssumption ==
    /\ Carriers \in Nat \ {0} /\ Blocks \in Nat /\ Oversampling \in 1..Blocks
    /\ Carriers >= 2            \* invert makes two rounds
    /\ Carriers <= Blocks       \* modulate follows a column for Carriers nodes
    /\ Prime \in Nat \ {0, 1, 2}
    /\ \A d \in 1..Prime - 1 : \E e \in 1..Prime - 1 : (e * d) % Prime = 1
    /\ Roundings \subseteq [0..Prime - 1 -> 0..Prime - 1]
    /\ \A f \in Roundings : f[0] = 0 /\ f[1] = 1
    /\ Waves \subseteq Value
    /\ Signals \subseteq [0..Carriers - 1 -> [0..Blocks - 1 -> Value]]
    /\ Noises \subseteq [0..Blocks * Oversampling - 1 -> [0..Blocks - 1 -> Value]]

VARIABLES
    stage,  \* what main does next
    t,      \* the tables of main, by name
    A, Aug, \* the tables invert works on
    r,      \* the round of invert
    ceil6   \* how divide_array_by_double rounds, in this execution
vars == <<stage, t, A, Aug, r, ceil6>>

-----------------------------------------------------------------------------
(* Values *)

Zero == <<0, 0>>
One == <<1, 0>>
Residues(re, im) == <<re % Prime, im % Prime>>
Plus(x, y) == Residues(x[1] + y[1], x[2] + y[2])
Minus(x, y) == Residues(x[1] - y[1], x[2] - y[2])
Times(x, y) == Residues(x[1] * y[1] - x[2] * y[2], x[1] * y[2] + x[2] * y[1])
Conj(x) == Residues(x[1], -x[2])

\* A value of divide_array_by_double.
Over(x, d) == LET e == CHOOSE e \in 1..Prime - 1 : (e * d) % Prime = 1
              IN  <<ceil6[(x[1] * e) % Prime], ceil6[(x[2] * e) % Prime]>>

\* The product as modulate and the augmented half of invert compute it: the
\* real parts are added.
Crossed(x, y) == Residues(x[1] * y[1] + x[2] * y[2], x[1] * y[2] + x[2] * y[1])

\* term[0] + ... + term[n - 1]
Total(term, n) ==
    LET sum[k \in 0..n] == IF k = 0 THEN Zero ELSE Plus(sum[k - 1], term[k - 1])
    IN  sum[n]

-----------------------------------------------------------------------------
(* Tables: a list of nodes for each column *)

table_init(rows, columns) ==
    [rows |-> rows, columns |-> columns, head |-> [j \in 0..columns - 1 |-> <<>>]]

node_init(value, row, col) == [value |-> value, row |-> row, col |-> col]

\* A table filled by table_append with value[i][j], rows in order within each column.
Fill(rows, columns, value) ==
    [rows |-> rows, columns |-> columns,
     head |-> [j \in 0..columns - 1 |->
                 [n \in 1..rows |-> node_init(value[n - 1][j], n - 1, j)]]]

\* The value in row i of column j: the search of copy_row_from_table and
\* get_column_from_table.
At(m, i, j) == LET n == CHOOSE n \in DOMAIN m.head[j] : m.head[j][n].row = i
               IN  m.head[j][n].value

\* copy_row_to_table
copy_row_to_table(m, row, i) ==
    [m EXCEPT !.head = [j \in DOMAIN @ |->
        [n \in DOMAIN @[j] |-> IF @[j][n].row = i
                               THEN node_init(row[j], i, j) ELSE @[j][n]]]]

\* C = M - S, node by node.
table_sub(M, S) ==
    [M EXCEPT !.head = [j \in DOMAIN @ |->
        [n \in DOMAIN @[j] |->
            node_init(Minus(@[j][n].value, S.head[j][n].value), @[j][n].row, @[j][n].col)]]]

\* The nth nodes of all columns of M are multiplied by the nth node of column j.
table_mult(M, B) ==
    [B EXCEPT !.head = [j \in DOMAIN @ |->
        [n \in DOMAIN @[j] |->
            node_init(Total([k \in 0..M.columns - 1 |->
                               Times(M.head[k][n].value, @[j][n].value)], M.columns),
                      @[j][n].row, @[j][n].col)]]]

identity_init(rows, columns) ==
    Fill(rows, columns, [i \in 0..rows - 1 |-> [j \in 0..columns - 1 |->
                            IF i = j THEN One ELSE Zero]])

-----------------------------------------------------------------------------
(* What the functions put into their tables *)

\* correlate: row i, column j, from the columns i and j of the carriers.
Correlation(M, i, j) ==
    Total([n \in 0..M.rows - 1 |->
              Times(Conj(M.head[j][n + 1].value), M.head[i][n + 1].value)], M.rows)

correlate(M) ==
    Fill(M.columns, M.columns,
         [i \in 0..M.columns - 1 |-> [j \in 0..M.columns - 1 |-> Correlation(M, i, j)]])

\* Faulty: as many rows as there are carriers.
modulateSquare(M, S, own) ==
    Fill(M.columns, S.columns, [i \in 0..M.columns - 1 |-> [k \in 0..S.columns - 1 |->
        Total([j \in 0..S.rows - 1 |->
                 Crossed(M.head[j][IF own THEN i + 1 ELSE 1].value,
                         S.head[k][j + 1].value)], S.rows)]])

\* Anode[j] = Anode[j++]->next is not sequenced. It may advance the pointer of
\* carrier j to the next row (own); or overwrite the pointer of carrier j + 1, and
\* then every row is made of the first nodes of carrier 0.
modulate(M, S, own) ==
    Fill(M.rows, S.columns, [i \in 0..M.rows - 1 |-> [k \in 0..S.columns - 1 |->
        Total([j \in 0..S.rows - 1 |->
                 Crossed(IF own THEN M.head[j][i + 1].value ELSE M.head[0][j + 1].value,
                         S.head[k][j + 1].value)], S.rows)]])

\* addition: column i + j * OVERSAMPLING is made from column j of M and column
\* j + i * OVERSAMPLING of the noise N. The pointers behind the last column of N
\* were never written; nothing has been freed, so they are NULL.
addition(N, M) ==
    LET Noise(c) == IF c < N.columns THEN N.head[c] ELSE <<>>
        Sum(n, m, c) == [k \in DOMAIN n \cap DOMAIN m |->
                            node_init(Plus(n[k].value, m[k].value), n[k].row, c)]
    IN  [table_init(M.rows, M.columns * Oversampling) EXCEPT !.head =
            [c \in DOMAIN @ |->
                LET i == c % Oversampling
                    j == c \div Oversampling
                IN  Sum(Noise(j + i * Oversampling), M.head[j], c)]]

-----------------------------------------------------------------------------
(* One round of invert *)

\* The rows Rr and Ar of round k, once multiplied by conj (which is the pivot
\* itself) where the pivot is not real.
Conditioned(M, k) ==
    LET pivot == At(A, k, k)
    IN  [j \in 0..M.columns - 1 |->
            IF pivot[2] # 0 THEN Times(At(M, k, j), pivot) ELSE At(M, k, j)]

\* What Rr and Ar are divided by.
Divisor(k) == Conditioned(A, k)[k][1]

Normalised(M, k) ==
    [j \in 0..M.columns - 1 |-> Over(Conditioned(M, k)[j], Divisor(k))]

\* Faulty: begins behind the pivot column.
SubtrahendLate(k, i, j) ==
    IF j <= k \/ i = k THEN Zero ELSE Times(At(A, i, k), Normalised(A, k)[j])

\* Row i, column j of subtr: columns from the pivot's on, all rows but its own.
Subtrahend(k, i, j) ==
    IF j < k \/ i = k THEN Zero ELSE Times(At(A, i, k), Normalised(A, k)[j])

\* Faulty: leaves out the pivot column.
AugSubtrahendShort(k, i, j) ==
    IF j >= k \/ i = k THEN Zero ELSE Crossed(At(A, i, k), Normalised(Aug, k)[j])

\* Row i, column j of asubtr: columns up to the pivot's.
AugSubtrahend(k, i, j) ==
    IF j > k \/ i = k THEN Zero ELSE Crossed(At(A, i, k), Normalised(Aug, k)[j])

\* The table that replaces M: row k normalised, then the subtrahend taken off.
Eliminate(M, k, subtrahend) ==
    table_sub(copy_row_to_table(M, Normalised(M, k), k),
              Fill(M.rows, M.columns, subtrahend))

-----------------------------------------------------------------------------
(* main *)

Init ==
    /\ stage = "IP_SIG"
    /\ t = [IP_SIG |-> table_init(Carriers, Blocks),
            CARRIERS |-> table_init(Blocks, Carriers),
            CORRELATION |-> table_init(Carriers, Carriers),
            MODI |-> table_init(Blocks, Blocks),
            AWGN |-> table_init(Blocks * Oversampling, Blocks),
            NOISY |-> table_init(Blocks, Blocks * Oversampling),
            INVERSE |-> table_init(Carriers, Carriers),
            ANSWER |-> table_init(Carriers, Carriers)]
    /\ A = table_init(Carriers, Carriers) /\ Aug = A
    /\ r = 0
    /\ ceil6 \in Roundings

\* main makes the table of this stage and goes on to the next.
Make(name, table, next) ==
    /\ stage = name /\ stage' = next
    /\ t' = [t EXCEPT ![name] = table]
    /\ UNCHANGED <<A, Aug, r, ceil6>>

create_IP_BLOCKS ==
    \E x \in Signals :
        Make("IP_SIG", Fill(Carriers, Blocks, x), "CARRIERS")

create_CARRIERS ==
    \E w \in [0..Blocks - 1 -> [0..Carriers - 1 -> Waves]] :
        Make("CARRIERS", Fill(Blocks, Carriers, w), "CORRELATION")

Correlate == Make("CORRELATION", correlate(t.CARRIERS), "MODI")

Modulate ==
    \E own \in BOOLEAN : Make("MODI", modulate(t.CARRIERS, t.IP_SIG, own), "AWGN")

create_noise ==
    \E z \in Noises :
        Make("AWGN", Fill(Blocks * Oversampling, Blocks, z), "NOISY")

Addition == Make("NOISY", addition(t.AWGN, t.MODI), "INVERSE")

MakeIdentity == Make("INVERSE", identity_init(Carriers, Carriers), "copy")

\* invert copies its arguments.
CopyTables ==
    /\ stage = "copy" /\ stage' = "round"
    /\ A' = t.CORRELATION /\ Aug' = t.INVERSE
    /\ UNCHANGED <<t, r, ceil6>>

\* A round of the elimination. After the first one A and Aprime are one table:
\* the subtrahends are complete before table_sub writes to it.
Round ==
    /\ stage = "round" /\ r < 2 /\ Divisor(r) # 0
    /\ A' = Eliminate(A, r,
              [i \in 0..Carriers - 1 |-> [j \in 0..Carriers - 1 |-> Subtrahend(r, i, j)]])
    /\ Aug' = Eliminate(Aug, r,
              [i \in 0..Carriers - 1 |-> [j \in 0..Carriers - 1 |-> AugSubtrahend(r, i, j)]])
    /\ r' = r + 1
    /\ UNCHANGED <<stage, t, ceil6>>

\* A division by zero fills the tables with infinities. They are not followed.
DivideByZero ==
    /\ stage = "round" /\ r < 2 /\ Divisor(r) = 0
    /\ stage' = "infinite"
    /\ UNCHANGED <<t, A, Aug, r, ceil6>>

\* The values of Aug go into the argument.
CopyResult ==
    /\ stage = "round" /\ r = 2 /\ stage' = "ANSWER"
    /\ t' = [t EXCEPT !.INVERSE = Aug]
    /\ UNCHANGED <<A, Aug, r, ceil6>>

CheckInversion == Make("ANSWER", table_mult(t.CORRELATION, t.INVERSE), "done")

Next ==
    \/ create_IP_BLOCKS \/ create_CARRIERS \/ Correlate \/ Modulate
    \/ create_noise \/ Addition \/ MakeIdentity \/ CopyTables \/ Round
    \/ DivideByZero \/ CopyResult \/ CheckInversion

Spec == Init /\ [][Next]_vars

-----------------------------------------------------------------------------
(* Properties *)

\* A column with a node for every row, in order, that knows its place.
Complete(m, j) ==
    /\ DOMAIN m.head[j] = 1..m.rows
    /\ \A n \in 1..m.rows : m.head[j][n].row = n - 1 /\ m.head[j][n].col = j

\* The order of main. A table is made once main is past the stage of its name;
\* invert works from copy to ANSWER.
Place == [IP_SIG |-> 1, CARRIERS |-> 2, CORRELATION |-> 3, MODI |-> 4, AWGN |-> 5,
          NOISY |-> 6, INVERSE |-> 7, copy |-> 8, round |-> 8, infinite |-> 8,
          ANSWER |-> 9, done |-> 10]
Made(name) == Place[name] < Place[stage]

\* Every table is empty until its stage and complete from then on, in the
\* dimensions main gave it; addition alone may leave columns empty, never the
\* first. The functions walk two lists in step and rely on it.
TypeOK ==
    /\ stage \in DOMAIN Place /\ r \in 0..2
    /\ \A name \in DOMAIN t : \A j \in DOMAIN t[name].head :
          \/ Made(name) /\ Complete(t[name], j)
          \/ ~Made(name) /\ t[name].head[j] = <<>>
          \/ name = "NOISY" /\ j # 0 /\ t[name].head[j] = <<>>
    /\ t.MODI.rows = t.NOISY.rows /\ t.MODI.columns * Oversampling = t.NOISY.columns

InInvert == stage = "round"

\* The rounding of the quotients changes none of them.
Exact == \A x \in 0..Prime - 1 : ceil6[x] = x

RealCorrelation == \A i, j \in 0..Carriers - 1 : At(t.CORRELATION, i, j)[2] = 0

\* The columns invert is through with are those of the identity, and the next pivot
\* is real. The first round achieves it always, for correlate makes the diagonal
\* real; the second if the correlation is real, or if no quotient is rounded, for
\* then what is left of a Hermitian table stays Hermitian. A complex correlation,
\* rounded, has a second pivot with an imaginary part: the code multiplies its row by
\* the pivot itself (l.839) instead of the conjugate the comment of l.832-834
\* promises, and does not leave 1 in the pivot's place (l.894-896). The first column
\* stays cleared even then.
Eliminated ==
    InInvert =>
        LET through == IF r < 2 \/ Exact \/ RealCorrelation THEN r ELSE 1
        IN  /\ \A i \in 0..Carriers - 1, j \in 0..through - 1 :
                  At(A, i, j) = IF i = j THEN One ELSE Zero
            /\ r < Carriers /\ (r = 0 \/ Exact \/ RealCorrelation) => At(A, r, r)[2] = 0

\* What invert did to the rows it did to the augment, but for rounding: Aug times
\* the correlation is A, always after the first round and after the second if no
\* entry of the correlation has an imaginary part. With two carriers that makes Aug
\* the inverse.
AugmentFollows ==
    InInvert /\ Exact /\ (r < 2 \/ RealCorrelation)
    => \A i, j \in 0..Carriers - 1 :
           Total([k \in 0..Carriers - 1 |-> Times(At(Aug, i, k), At(t.CORRELATION, k, j))],
                 Carriers) = At(A, i, j)
=============================================================================
