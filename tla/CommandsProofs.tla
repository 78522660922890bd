--------------------------- MODULE CommandsProofs ---------------------------
(* Proofs about what commands do: AccountData, for any rows and keys of the *)
(* schema, any writers and any number of changes beside the operator's      *)
(* command; FeedConfig, for any files, operators and number of changes;     *)
(* TelegramBot, for any lists, messages and calls of the API.               *)
EXTENDS AccountData, FeedConfig, TelegramBot, FiniteSetTheorems, TLAPS

Commands == {"export", "dry run", "delete", "smoke"}

Size(c) == Len(Program(c))

(* Statements that read the requests of the account.                        *)
ReadsIds(s) == s \in {<<"export", "request">>, <<"ids", "request">>}

There == rows \ op.gone

Passed(n) == n \in 1..Size(op.command) /\ n < op.pc

Reading == \A n \in 1..Size(op.command) : Passed(n) => Program(op.command)[n][1] # "delete"

OfTable(S, t) == {r \in S : TableOf[r] = t}

-----------------------------------------------------------------------------
CountedRows == Tables \X {Cardinality(S) : S \in SUBSET Rows}

OpTypeOK ==
  op \in [pc : Nat, command : Commands \cup {"none"}, ids : SUBSET Rows,
          counts : Seq(CountedRows),
          exported : SUBSET Rows, gone : SUBSET Rows, steady : SUBSET Rows,
          alone : BOOLEAN]

AccountTypeOK ==
  /\ rows \in SUBSET Rows /\ writer \in [Writers -> Rows \cup {NoRow}]
  /\ OpTypeOK
  /\ op.pc # 0 => op.command \in Commands

(* The keys of what the transaction leaves, and of what is being inserted,  *)
(* lead to what it leaves; those of what is committed to what is committed. *)
KeysHold ==
  /\ \A r \in rows : Cascades(r) \subseteq rows
  /\ \A r \in There : Cascades(r) \subseteq There
  /\ \A w \in Writers : writer[w] # NoRow => RefersTo[writer[w]] \subseteq There

(* What the transaction has read, exported or deleted is of the account.    *)
OthersApart ==
  /\ Others \subseteq There
  /\ op.ids \subseteq OfTable(Mine(Rows), "request") /\ op.exported \subseteq Mine(Rows)

(* The row of the user is there until the deletion is committed, so nobody  *)
(* inserts it anew, and the last statement has deleted it.                  *)
UserKept ==
  /\ op.pc \in 1..(Size(op.command) + 1) => OfTable(Mine(rows), "user") # {}
  /\ \A w \in Writers : writer[w] # NoRow => writer[w] \notin OfTable(Mine(Rows), "user")
  /\ Deletes /\ op.pc = Size(op.command) + 1 => OfTable(Mine(There), "user") = {}

(* What has been there since the start is found by every query.             *)
SteadyRead ==
  op.pc # 0 =>
    /\ \A r \in op.steady : Cascades(r) \subseteq op.steady
    /\ Reading /\ op.pc =< Size(op.command) + 1 => op.steady \subseteq There
    /\ \A n \in 1..Size(op.command) : Passed(n) =>
         /\ ReadsIds(Program(op.command)[n]) => OfTable(Mine(op.steady), "request") \subseteq op.ids
         /\ Program(op.command)[n][1] = "export" =>
              OfTable(Mine(op.steady), Program(op.command)[n][2]) \subseteq op.exported

(* A transaction that is alone reads just what was there at the start, and  *)
(* the notifications it has deleted do not come back.                       *)
AloneReads ==
  op.pc # 0 /\ op.alone =>
    /\ \A w \in Writers : writer[w] = NoRow
    /\ Reading /\ op.pc =< Size(op.command) + 1 => There \subseteq op.steady
    /\ op.ids \subseteq op.steady
    /\ \A n \in DOMAIN op.counts :
         op.counts[n][2] = Cardinality(OfTable(Mine(op.steady), op.counts[n][1]))
    /\ op.pc =< Size(op.command) + 1 => \A n \in 1..Size(op.command) :
         Passed(n) /\ Program(op.command)[n] = <<"delete", "notification">>
            => OfTable(Mine(There), "notification") = {}

AccountInv ==
  AccountTypeOK /\ KeysHold /\ OthersApart /\ UserKept /\ SteadyRead /\ AloneReads

-----------------------------------------------------------------------------
(* What the commands consist of. *)

Kinds == {"export", "ids", "count", "delete"}

AllSteps == Kinds \X Tables

Joins(u, s, t) ==
  /\ u \in Seq(AllSteps) /\ Len(u) = Len(s) + Len(t)
  /\ \A n \in 1..Len(s) : u[n] = s[n]
  /\ \A n \in 1..Len(t) : u[Len(s) + n] = t[n]

LEMMA Joined == \A s, t \in Seq(AllSteps) : Joins(s \o t, s, t)
  BY DEF Joins

LEMMA StatementsOf ==
  ASSUME NEW kind \in Kinds, NEW order \in Seq(Tables)
  PROVE  /\ Statements(kind, order) \in Seq(AllSteps)
         /\ Len(Statements(kind, order)) = Len(order)
         /\ \A n \in 1..Len(order) : Statements(kind, order)[n] = <<kind, order[n]>>
  BY DEF Statements, AllSteps

LEMMA Orders ==
  /\ ExportOrder \in Seq(Tables) /\ Len(ExportOrder) = 7
  /\ CountOrder \in Seq(Tables) /\ Len(CountOrder) = 6
  /\ DeleteOrder \in Seq(Tables) /\ Len(DeleteOrder) = 7
  BY DEF ExportOrder, CountOrder, DeleteOrder, Tables

LEMMA IdsStatement ==
  Ids \in Seq(AllSteps) /\ Len(Ids) = 1 /\ Ids[1] = <<"ids", "request">>
  BY DEF Ids, Kinds, Tables, AllSteps

LEMMA CountStatements ==
  /\ Count \in Seq(AllSteps) /\ Len(Count) = 7
  /\ Count[1] = <<"ids", "request">>
  /\ \A n \in 2..7 : Count[n] = <<"count", CountOrder[n - 1]>>
  <1> DEFINE C == Statements("count", CountOrder)
  <1>1. /\ C \in Seq(AllSteps) /\ Len(C) = 6
        /\ \A n \in 1..6 : C[n] = <<"count", CountOrder[n]>>
    BY StatementsOf, Orders DEF Kinds
  <1>2. Count = Ids \o C BY DEF Count
  <1> HIDE DEF C
  <1>3. /\ Count \in Seq(AllSteps) /\ Len(Count) = 7 /\ Count[1] = Ids[1]
        /\ \A n \in 1..6 : Count[1 + n] = C[n]
    <2>1. 1 \in Nat /\ 6 \in Nat /\ 1 + 6 = 7 /\ 1 \in 1..1 OBVIOUS
    <2>2. Joins(Ids \o C, Ids, C) BY <1>1, IdsStatement, Joined
    <2> QED BY <1>1, <1>2, <2>1, <2>2, IdsStatement DEF Joins
  <1>4. ASSUME NEW n \in 2..7 PROVE Count[n] = <<"count", CountOrder[n - 1]>>
    <2>1. n - 1 \in 1..6 /\ 1 + (n - 1) = n OBVIOUS
    <2> QED BY <1>1, <1>3, <2>1
  <1> QED BY <1>3, <1>4, IdsStatement

LEMMA DeleteStatements ==
  /\ Delete \in Seq(AllSteps) /\ Len(Delete) = 15
  /\ Delete[1] = <<"ids", "request">> /\ Delete[2] = <<"ids", "request">>
  /\ \A n \in 3..8 : Delete[n] = <<"count", CountOrder[n - 2]>>
  /\ \A n \in 9..15 : Delete[n] = <<"delete", DeleteOrder[n - 8]>>
  <1> DEFINE D == Statements("delete", DeleteOrder)
             I == Ids \o Count
  <1>1. /\ D \in Seq(AllSteps) /\ Len(D) = 7
        /\ \A n \in 1..7 : D[n] = <<"delete", DeleteOrder[n]>>
    BY StatementsOf, Orders DEF Kinds
  <1>2. /\ I \in Seq(AllSteps) /\ Len(I) = 8 /\ I[1] = Ids[1]
        /\ \A n \in 1..7 : I[1 + n] = Count[n]
    <2>1. Joins(I, Ids, Count) BY CountStatements, IdsStatement, Joined
    <2>2. 1 \in 1..1 /\ 1 + 7 = 8 OBVIOUS
    <2> QED BY <2>1, <2>2, CountStatements, IdsStatement DEF Joins
  <1>3. Delete = I \o D BY DEF Delete
  <1> HIDE DEF D, I
  <1>4. /\ Delete \in Seq(AllSteps) /\ Len(Delete) = 15
        /\ \A n \in 1..8 : Delete[n] = I[n]
        /\ \A n \in 1..7 : Delete[8 + n] = D[n]
    <2>1. Joins(Delete, I, D) BY <1>1, <1>2, <1>3, Joined
    <2> QED BY <1>1, <1>2, <2>1 DEF Joins
  <1>5. Delete[1] = <<"ids", "request">> /\ Delete[2] = <<"ids", "request">>
    <2>1. Delete[1] = I[1] /\ Delete[2] = I[2] BY <1>4
    <2>2. I[1 + 1] = Count[1] BY <1>2
    <2> QED BY <1>2, <2>1, <2>2, IdsStatement, CountStatements
  <1>6. ASSUME NEW n \in 3..8 PROVE Delete[n] = <<"count", CountOrder[n - 2]>>
    <2>1. /\ n \in 1..8 /\ n - 1 \in 2..7 /\ n - 1 \in 1..7 /\ 1 + (n - 1) = n
          /\ (n - 1) - 1 = n - 2
      OBVIOUS
    <2>2. Delete[n] = I[n] /\ I[1 + (n - 1)] = Count[n - 1] BY <1>2, <1>4, <2>1
    <2> QED BY <2>1, <2>2, CountStatements
  <1>7. ASSUME NEW n \in 9..15 PROVE Delete[n] = <<"delete", DeleteOrder[n - 8]>>
    <2>1. n - 8 \in 1..7 /\ 8 + (n - 8) = n OBVIOUS
    <2> QED BY <1>1, <1>4, <2>1
  <1> QED BY <1>4, <1>5, <1>6, <1>7

(* The smoke exports and then deletes.                                      *)
LEMMA SmokeStatements ==
  LET P == Program("smoke") IN
  /\ P \in Seq(AllSteps) /\ Len(P) = 29
  /\ \A n \in 1..7 : P[n] = <<"export", ExportOrder[n]>>
  /\ P[8] = <<"ids", "request">>
  /\ \A n \in 9..14 : P[n] = <<"count", CountOrder[n - 8]>>
  /\ \A n \in 15..29 : P[n] = Delete[n - 14]
  <1> DEFINE E == Statements("export", ExportOrder)
             F == E \o Count
             P == Program("smoke")
  <1>1. /\ E \in Seq(AllSteps) /\ Len(E) = 7
        /\ \A n \in 1..7 : E[n] = <<"export", ExportOrder[n]>>
    BY StatementsOf, Orders DEF Kinds
  <1>2. P = F \o Delete
    <2>1. P = E \o Count \o Delete BY DEF Program
    <2> QED BY <2>1
  <1> HIDE DEF E
  <1>3. /\ F \in Seq(AllSteps) /\ Len(F) = 14
        /\ \A n \in 1..7 : F[n] = E[n]
        /\ \A n \in 1..7 : F[7 + n] = Count[n]
    <2>1. Joins(F, E, Count) BY <1>1, CountStatements, Joined
    <2> QED BY <1>1, <2>1, CountStatements DEF Joins
  <1> HIDE DEF F, P
  <1>4. /\ P \in Seq(AllSteps) /\ Len(P) = 29
        /\ \A n \in 1..14 : P[n] = F[n]
        /\ \A n \in 1..15 : P[14 + n] = Delete[n]
    <2>1. Joins(P, F, Delete) BY <1>2, <1>3, DeleteStatements, Joined
    <2> QED BY <1>3, <2>1, DeleteStatements DEF Joins
  <1>5. ASSUME NEW n \in 1..7 PROVE P[n] = <<"export", ExportOrder[n]>>
    <2>1. n \in 1..14 OBVIOUS
    <2> QED BY <1>1, <1>3, <1>4, <2>1
  <1>6. P[8] = <<"ids", "request">>
    <2>1. P[8] = F[8] /\ F[7 + 1] = Count[1] BY <1>3, <1>4
    <2> QED BY <2>1, CountStatements
  <1>7. ASSUME NEW n \in 9..14 PROVE P[n] = <<"count", CountOrder[n - 8]>>
    <2>1. /\ n \in 1..14 /\ n - 7 \in 2..7 /\ n - 7 \in 1..7 /\ 7 + (n - 7) = n
          /\ (n - 7) - 1 = n - 8
      OBVIOUS
    <2>2. P[n] = F[n] /\ F[7 + (n - 7)] = Count[n - 7] BY <1>3, <1>4, <2>1
    <2> QED BY <2>1, <2>2, CountStatements
  <1>8. ASSUME NEW n \in 15..29 PROVE P[n] = Delete[n - 14]
    <2>1. n - 14 \in 1..15 /\ 14 + (n - 14) = n OBVIOUS
    <2> QED BY <1>4, <2>1
  <1> QED BY <1>4, <1>5, <1>6, <1>7, <1>8 DEF P

LEMMA ExportStatements ==
  LET P == Program("export") IN
  /\ P \in Seq(AllSteps) /\ Len(P) = 7
  /\ \A n \in 1..7 : P[n] = <<"export", ExportOrder[n]>>
  <1>1. "export" \in Kinds BY DEF Kinds
  <1> QED BY <1>1, StatementsOf, Orders DEF Program

(* What the proofs need of a program: the requests are read before what is  *)
(* below them, everything is read before anything is deleted, an export has *)
(* every table, and deletions begin with the notifications and end with the *)
(* user.                                                                    *)
Shaped(c, P) ==
  /\ P \in Seq(AllSteps) /\ Len(P) \in Nat \ {0}
  /\ \A n \in 1..Len(P) : P[n][1] = "ids" => P[n][2] = "request"
  /\ \A m, n \in 1..Len(P) : m < n /\ P[m][1] = "delete" => P[n][1] = "delete"
  /\ \A n \in 1..Len(P) :
       P[n][1] # "delete" /\ P[n][2] \in {"constraints", "recommendation"}
         => \E m \in 1..Len(P) : m < n /\ ReadsIds(P[m])
  /\ c \in {"export", "smoke"} =>
       \A t \in Tables : \E n \in 1..Len(P) : P[n] = <<"export", t>>
  /\ \A n \in 1..Len(P) : P[n][1] = "delete" /\ P[n] # <<"delete", "notification">>
       => \E m \in 1..Len(P) : m < n /\ P[m] = <<"delete", "notification">>
  /\ c \in {"delete", "smoke"} => P[Len(P)] = <<"delete", "user">>

LEMMA ShapeOfExport == Shaped("export", Program("export"))
  <1> DEFINE P == Program("export")
  <1>1. /\ P \in Seq(AllSteps) /\ Len(P) = 7
        /\ \A n \in 1..7 : P[n] = <<"export", ExportOrder[n]>>
    BY ExportStatements
  <1> HIDE DEF P
  <1>2. /\ \A t \in Tables : \E n \in 1..7 : ExportOrder[n] = t
        /\ \A n \in 1..7 : ExportOrder[n] \in {"constraints", "recommendation"} => 3 < n
        /\ ExportOrder[3] = "request"
    BY DEF ExportOrder, Tables
  <1>3. ReadsIds(P[3])
    <2>1. 3 \in 1..7 OBVIOUS
    <2> QED BY <1>1, <1>2, <2>1 DEF ReadsIds
  <1>4. \A n \in 1..7 : P[n][1] = "export" /\ P[n][2] = ExportOrder[n] BY <1>1
  <1>5. \A t \in Tables : \E n \in 1..7 : P[n] = <<"export", t>>
    <2>1. ASSUME NEW t \in Tables PROVE \E n \in 1..7 : P[n] = <<"export", t>>
      <3>1. PICK n \in 1..7 : ExportOrder[n] = t BY <1>2
      <3> QED BY <1>1, <3>1
    <2> QED BY <2>1
  <1>6. \A n \in 1..7 : P[n][2] \in {"constraints", "recommendation"}
          => \E m \in 1..7 : m < n /\ ReadsIds(P[m])
    <2>1. 3 \in 1..7 OBVIOUS
    <2> QED BY <1>2, <1>3, <1>4, <2>1
  <1>7. \A n \in 1..Len(P) : P[n][1] = "export" BY <1>1, <1>4
  <1>8. P \in Seq(AllSteps) /\ Len(P) \in Nat \ {0} BY <1>1
  <1>9. /\ \A t \in Tables : \E n \in 1..Len(P) : P[n] = <<"export", t>>
        /\ \A n \in 1..Len(P) : P[n][2] \in {"constraints", "recommendation"}
             => \E m \in 1..Len(P) : m < n /\ ReadsIds(P[m])
    BY <1>1, <1>5, <1>6
  <1> QED BY <1>7, <1>8, <1>9 DEF Shaped, P

LEMMA ShapeOfCount == Shaped("dry run", Program("dry run"))
  <1> DEFINE P == Program("dry run")
  <1>1. P = Count BY DEF Program
  <1> HIDE DEF P
  <1>2. P[1][1] = "ids" /\ P[1][2] = "request" /\ ReadsIds(P[1])
    BY <1>1, CountStatements DEF ReadsIds
  <1>3. P \in Seq(AllSteps) /\ Len(P) = 7 BY <1>1, CountStatements
  <1>4. ASSUME NEW n \in 1..7, n # 1 PROVE P[n][1] = "count" /\ 1 < n
    <2>1. n \in 2..7 /\ 1 < n BY <1>4
    <2> QED BY <1>1, <2>1, CountStatements
  <1>5. \A n \in 1..Len(P) : P[n][1] # "delete" BY <1>2, <1>3, <1>4
  <1>6. \A n \in 1..Len(P) : P[n][1] = "ids" => P[n][2] = "request" BY <1>2, <1>3, <1>4
  <1>7. \A n \in 1..Len(P) : P[n][2] \in {"constraints", "recommendation"}
          => \E m \in 1..Len(P) : m < n /\ ReadsIds(P[m])
    <2>1. 1 \in 1..7 OBVIOUS
    <2> QED BY <1>2, <1>3, <1>4, <2>1
  <1>8. P \in Seq(AllSteps) /\ Len(P) \in Nat \ {0} BY <1>3
  <1> QED BY <1>5, <1>6, <1>7, <1>8 DEF Shaped, P

LEMMA DeleteOrderEnds == DeleteOrder[1] = "notification" /\ DeleteOrder[7] = "user"
  BY DEF DeleteOrder

LEMMA ShapeOfDelete == Shaped("delete", Program("delete"))
  <1> DEFINE P == Program("delete")
  <1>1. P = Delete BY DEF Program
  <1> HIDE DEF P
  <1>2. P \in Seq(AllSteps) /\ Len(P) = 15 BY <1>1, DeleteStatements
  <1>3. ReadsIds(P[1]) BY <1>1, DeleteStatements DEF ReadsIds
  <1>4. \A n \in 1..15 : n < 9 => /\ P[n][1] # "delete"
                                  /\ P[n][1] = "ids" => P[n][2] = "request"
                                  /\ P[n][2] # "request" => 1 < n
    <2>1. \A n \in 1..15 : n < 9 => n = 1 \/ n = 2 \/ n \in 3..8 OBVIOUS
    <2> QED BY <1>1, <2>1, DeleteStatements
  <1>5. \A n \in 1..15 : n >= 9 => P[n] = <<"delete", DeleteOrder[n - 8]>>
    <2>1. \A n \in 1..15 : n >= 9 => n \in 9..15 OBVIOUS
    <2> QED BY <1>1, <2>1, DeleteStatements
  <1>6. P[9] = <<"delete", "notification">> /\ P[15] = <<"delete", "user">>
    <2>1. 9 \in 1..15 /\ 15 \in 1..15 /\ 9 - 8 = 1 /\ 15 - 8 = 7 OBVIOUS
    <2> QED BY <1>5, <2>1, DeleteOrderEnds
  <1>7. \A n \in 1..15 : P[n][1] = "delete" <=> n >= 9 BY <1>4, <1>5
  <1>8. \A n \in 1..15 : P[n][1] # "delete" /\ P[n][2] \in {"constraints", "recommendation"}
          => \E m \in 1..15 : m < n /\ ReadsIds(P[m])
    <2>1. 1 \in 1..15 OBVIOUS
    <2> QED BY <1>3, <1>4, <1>7, <2>1
  <1>9. \A n \in 1..15 : P[n][1] = "delete" /\ P[n] # <<"delete", "notification">>
          => \E m \in 1..15 : m < n /\ P[m] = <<"delete", "notification">>
    <2>1. \A n \in 1..15 : n >= 9 /\ n # 9 => 9 < n OBVIOUS
    <2>2. 9 \in 1..15 OBVIOUS
    <2> QED BY <1>6, <1>7, <2>1, <2>2
  <1>10. \A n \in 1..15 : P[n][1] = "ids" => P[n][2] = "request" BY <1>4, <1>7
  <1>11. \A m, n \in 1..15 : m < n /\ P[m][1] = "delete" => P[n][1] = "delete" BY <1>7
  <1>12. Len(P) \in Nat \ {0} BY <1>2
  <1> QED BY <1>2, <1>6, <1>8, <1>9, <1>10, <1>11, <1>12 DEF Shaped, P

LEMMA ShapeOfSmoke == Shaped("smoke", Program("smoke"))
  <1> DEFINE P == Program("smoke")
  <1>1. /\ P \in Seq(AllSteps) /\ Len(P) = 29
        /\ \A n \in 1..7 : P[n] = <<"export", ExportOrder[n]>>
        /\ P[8] = <<"ids", "request">>
        /\ \A n \in 9..14 : P[n] = <<"count", CountOrder[n - 8]>>
        /\ \A n \in 15..29 : P[n] = Delete[n - 14]
    BY SmokeStatements
  <1> HIDE DEF P
  <1>2. /\ \A t \in Tables : \E n \in 1..7 : ExportOrder[n] = t
        /\ \A n \in 1..7 : ExportOrder[n] \in {"constraints", "recommendation"} => 3 < n
        /\ ExportOrder[3] = "request"
    BY DEF ExportOrder, Tables
  <1>3. ReadsIds(P[3])
    <2>1. 3 \in 1..7 OBVIOUS
    <2> QED BY <1>1, <1>2, <2>1 DEF ReadsIds
  <1>4. ASSUME NEW n \in 1..29, n < 15
        PROVE  /\ P[n][1] # "delete"
               /\ P[n][1] = "ids" => P[n][2] = "request"
               /\ P[n][2] \in {"constraints", "recommendation"} => 3 < n
    <2>1. n \in 1..7 \/ n = 8 \/ (n \in 9..14 /\ 3 < n) BY <1>4
    <2>2. CASE n \in 1..7
      <3>1. P[n] = <<"export", ExportOrder[n]>> BY <1>1, <2>2
      <3>2. P[n][1] = "export" /\ P[n][2] = ExportOrder[n] BY <3>1
      <3>3. ExportOrder[n] \in {"constraints", "recommendation"} => 3 < n BY <1>2, <2>2
      <3> QED BY <3>2, <3>3
    <2>3. CASE n \in 9..14 /\ 3 < n
      <3>1. P[n] = <<"count", CountOrder[n - 8]>> BY <1>1, <2>3
      <3> QED BY <2>3, <3>1
    <2>4. CASE n = 8
      <3>1. P[8] = <<"ids", "request">> BY <1>1
      <3>2. P[8][1] = "ids" /\ P[8][2] = "request" BY <3>1
      <3> QED BY <2>4, <3>2
    <2> QED BY <2>1, <2>2, <2>3, <2>4
  <1>5. ASSUME NEW n \in 1..29, n >= 15, n < 23
        PROVE  P[n][1] # "delete" /\ (P[n][1] = "ids" => P[n][2] = "request")
    <2>1. n \in 15..29 /\ (n - 14 = 1 \/ n - 14 = 2 \/ n - 14 \in 3..8) BY <1>5
    <2>2. P[n] = Delete[n - 14] BY <1>1, <2>1
    <2>3. CASE n - 14 \in 3..8
      <3>1. Delete[n - 14] = <<"count", CountOrder[(n - 14) - 2]>> BY <2>3, DeleteStatements
      <3> QED BY <2>2, <3>1
    <2> QED BY <2>1, <2>2, <2>3, DeleteStatements
  <1>6. ASSUME NEW n \in 1..29, n >= 23 PROVE P[n] = <<"delete", DeleteOrder[n - 22]>>
    <2>1. n \in 15..29 /\ n - 14 \in 9..15 /\ (n - 14) - 8 = n - 22 BY <1>6
    <2>2. Delete[n - 14] = <<"delete", DeleteOrder[(n - 14) - 8]>> BY <2>1, DeleteStatements
    <2> QED BY <1>1, <2>1, <2>2
  <1>7. P[23] = <<"delete", "notification">> /\ P[29] = <<"delete", "user">>
    <2>1. 23 \in 1..29 /\ 29 \in 1..29 /\ 23 - 22 = 1 /\ 29 - 22 = 7 OBVIOUS
    <2> QED BY <1>6, <2>1, DeleteOrderEnds
  <1>8. \A n \in 1..29 : P[n][1] = "delete" <=> n >= 23
    <2>1. \A n \in 1..29 : n < 15 \/ (n >= 15 /\ n < 23) \/ n >= 23 OBVIOUS
    <2> QED BY <1>4, <1>5, <1>6, <2>1
  <1>9. \A n \in 1..29 : P[n][1] # "delete" /\ P[n][2] \in {"constraints", "recommendation"}
          => \E m \in 1..29 : m < n /\ ReadsIds(P[m])
    <2>1. 3 \in 1..29 /\ \A n \in 1..29 : n < 15 \/ 3 < n OBVIOUS
    <2> QED BY <1>3, <1>4, <2>1
  <1>10. \A n \in 1..29 : P[n][1] = "delete" /\ P[n] # <<"delete", "notification">>
          => \E m \in 1..29 : m < n /\ P[m] = <<"delete", "notification">>
    <2>1. \A n \in 1..29 : n >= 23 /\ n # 23 => 23 < n OBVIOUS
    <2>2. 23 \in 1..29 OBVIOUS
    <2> QED BY <1>7, <1>8, <2>1, <2>2
  <1>11. \A n \in 1..29 : P[n][1] = "ids" => P[n][2] = "request"
    <2>1. \A n \in 1..29 : n < 15 \/ (n >= 15 /\ n < 23) \/ n >= 23 OBVIOUS
    <2> QED BY <1>4, <1>5, <1>8, <2>1
  <1>12. \A m, n \in 1..29 : m < n /\ P[m][1] = "delete" => P[n][1] = "delete" BY <1>8
  <1>13. \A t \in Tables : \E n \in 1..29 : P[n] = <<"export", t>>
    <2>1. ASSUME NEW t \in Tables PROVE \E n \in 1..29 : P[n] = <<"export", t>>
      <3>1. PICK n \in 1..7 : ExportOrder[n] = t BY <1>2
      <3>2. n \in 1..29 OBVIOUS
      <3> QED BY <1>1, <3>1, <3>2
    <2> QED BY <2>1
  <1>14. Len(P) \in Nat \ {0} BY <1>1
  <1> QED BY <1>1, <1>7, <1>9, <1>10, <1>11, <1>12, <1>13, <1>14 DEF Shaped, P

LEMMA ProgramShape == \A c \in Commands : Shaped(c, Program(c))
  BY ShapeOfExport, ShapeOfCount, ShapeOfDelete, ShapeOfSmoke DEF Commands

LEMMA Sizes == \A c \in Commands \cup {"none"} : Size(c) \in Nat \ {0}
  <1>1. \A c \in Commands : Size(c) \in Nat \ {0} BY ProgramShape DEF Shaped, Size
  <1>2. Program("none") = Program("smoke") BY DEF Program
  <1>3. "smoke" \in Commands BY DEF Commands
  <1> QED BY <1>1, <1>2, <1>3 DEF Size

-----------------------------------------------------------------------------
(* The keys of the schema. *)

LEMMA Schema ==
  /\ \A r \in Rows : Cascades(r) \subseteq RefersTo[r] /\ RefersTo[r] \subseteq Rows
  /\ \A r \in Rows : TableOf[r] \in Tables
  /\ \A r \in Rows : TableOf[r] = "user" => Cascades(r) = {}
  /\ \A r \in Rows : TableOf[r] # "user" => Cascades(r) # {}
  /\ \A r \in Rows : \A p \in Cascades(r) : p \in Rows /\ OwnerOf[p] = OwnerOf[r]
  /\ \A r \in Rows : \A p \in Cascades(r) :
       TableOf[p] = IF TableOf[r] \in {"constraints", "recommendation"}
                    THEN "request" ELSE "user"
  /\ \A r, q \in Rows : TableOf[r] = "user" /\ TableOf[q] = "user" /\ OwnerOf[q] = OwnerOf[r]
       => q = r
  /\ \A r \in Rows : TableOf[r] \in {"constraints", "recommendation"}
       => Cascades(r) = RefersTo[r]
  <1>1. /\ TableOf \in [Rows -> Tables] /\ RefersTo \in [Rows -> SUBSET Rows]
    BY AccountAssumption
  <1>2. \A r \in Rows : TableOf[r] \in Tables /\ RefersTo[r] \subseteq Rows BY <1>1
  <1>3. \A r \in Rows : Cascades(r) \subseteq RefersTo[r] BY DEF Cascades
  <1>4. \A r \in Rows : TableOf[r] = "user" => RefersTo[r] = {} BY AccountAssumption
  <1>5. \A r \in Rows : TableOf[r] \in {"constraints", "recommendation"}
          => Cascades(r) = RefersTo[r]
    BY DEF Cascades
  <1>6. \A r \in Rows : TableOf[r] # "user" => Cascades(r) # {} BY AccountAssumption
  <1>7. \A r \in Rows : \A p \in Cascades(r) :
          /\ OwnerOf[p] = OwnerOf[r]
          /\ TableOf[p] = IF TableOf[r] \in {"constraints", "recommendation"}
                          THEN "request" ELSE "user"
    BY AccountAssumption
  <1>8. \A r \in Rows : \A q \in Rows :
          TableOf[r] = "user" /\ TableOf[q] = "user" /\ OwnerOf[q] = OwnerOf[r] => q = r
    BY AccountAssumption
  <1>9. \A r \in Rows : TableOf[r] = "user" => Cascades(r) = {} BY <1>3, <1>4
  <1> QED BY <1>2, <1>3, <1>5, <1>6, <1>7, <1>8, <1>9

(* Rows of the account whose keys lead to what is there lead to the user.   *)
LEMMA NoUserNoRow ==
  ASSUME NEW S \in SUBSET Rows, \A r \in S : Cascades(r) \subseteq S,
         OfTable(Mine(S), "user") = {}
  PROVE  Mine(S) = {}
  <1>1. SUFFICES ASSUME NEW r \in S, OwnerOf[r] = Account PROVE FALSE BY DEF Mine
  <1>2. TableOf[r] # "user" BY <1>1 DEF OfTable, Mine
  <1>3. PICK p \in S : p \in Cascades(r) BY <1>2, Schema
  <1>4. OwnerOf[p] = Account /\ TableOf[p] \in {"request", "user"} BY <1>1, <1>3, Schema
  <1>5. TableOf[p] = "request" BY <1>4 DEF OfTable, Mine
  <1>6. PICK q \in S : q \in Cascades(p) BY <1>5, Schema
  <1>7. OwnerOf[q] = Account /\ TableOf[q] = "user" BY <1>4, <1>5, <1>6, Schema
  <1> QED BY <1>7 DEF OfTable, Mine

(* What a statement deletes with the rows it finds: rows that are there, of *)
(* the account, and everything below them.                                  *)
LEMMA CascadeCloses ==
  ASSUME rows \in SUBSET Rows, NEW S \in SUBSET Mine(There)
  PROVE  /\ S \subseteq WithCascade(S) /\ WithCascade(S) \subseteq Mine(There)
         /\ \A r \in There : Cascades(r) \cap WithCascade(S) # {} => r \in WithCascade(S)
  <1> DEFINE below(T) == {r \in There : Cascades(r) \cap T # {}}
             first == S \cup below(S)
  <1>1. WithCascade(S) = first \cup below(first) BY DEF WithCascade, There
  <1>2. There \subseteq Rows BY DEF There
  <1>3. ASSUME NEW T \in SUBSET Mine(There) PROVE below(T) \in SUBSET Mine(There)
    BY <1>2, Schema DEF Mine
  <1>4. first \in SUBSET Mine(There) BY <1>3
  <1>5. WithCascade(S) \in SUBSET Mine(There) BY <1>1, <1>3, <1>4
  <1>6. ASSUME NEW r \in There, NEW p \in Cascades(r), p \in WithCascade(S)
        PROVE  r \in WithCascade(S)
    <2>1. CASE p \in first BY <1>1, <2>1
    <2>2. CASE p \in below(first)
      <3>1. PICK q \in Cascades(p) : q \in first BY <2>2
      <3>2. TableOf[p] = "request" /\ TableOf[q] = "user"
        <4>1. TableOf[p] \in {"user", "request"} /\ p \in Rows BY <1>2, Schema
        <4>2. TableOf[p] # "user" BY <3>1, <4>1, Schema
        <4> QED BY <3>1, <4>1, <4>2, Schema
      <3>3. q \in S
        <4>1. q \in Rows BY <1>2, <1>4, <3>1 DEF Mine
        <4>2. Cascades(q) = {} BY <3>2, <4>1, Schema
        <4> QED BY <3>1, <4>2
      <3>4. p \in below(S) BY <2>2, <3>1, <3>3
      <3> QED BY <1>1, <3>4
    <2> QED BY <1>1, <1>6, <2>1, <2>2
  <1> QED BY <1>1, <1>5, <1>6

-----------------------------------------------------------------------------
(* What a statement finds. *)

LEMMA CurrentStatement ==
  ASSUME AccountTypeOK, op.pc \in 1..Size(op.command)
  PROVE  /\ op.command \in Commands /\ Size(op.command) \in Nat \ {0}
         /\ Shaped(op.command, Program(op.command))
         /\ Statement \in AllSteps /\ Statement = Program(op.command)[op.pc]
         /\ Statement[1] \in Kinds /\ Statement[2] \in Tables
         /\ Statement = <<Statement[1], Statement[2]>>
  <1>1. op.pc \in Nat /\ op.pc # 0
    <2>1. op.command \in Commands \cup {"none"} BY DEF AccountTypeOK, OpTypeOK
    <2>2. Size(op.command) \in Nat BY <2>1, Sizes
    <2> QED BY <2>2
  <1>2. op.command \in Commands BY <1>1 DEF AccountTypeOK
  <1>3. Shaped(op.command, Program(op.command)) BY <1>2, ProgramShape
  <1>4. Statement \in AllSteps /\ Statement = Program(op.command)[op.pc]
    BY <1>3 DEF Shaped, Statement, Size
  <1>5. Size(op.command) \in Nat \ {0} BY <1>3 DEF Shaped, Size
  <1> QED BY <1>2, <1>3, <1>4, <1>5 DEF AllSteps

(* Before a query nothing has been deleted.                                 *)
LEMMA QueriesRead ==
  ASSUME AccountTypeOK, op.pc \in 1..Size(op.command), Statement[1] # "delete"
  PROVE  Reading
  <1>1. SUFFICES ASSUME NEW n \in 1..Size(op.command), n < op.pc,
                        Program(op.command)[n][1] = "delete"
                 PROVE  FALSE
    BY DEF Reading, Passed
  <1>2. Program(op.command)[op.pc][1] = "delete"
    BY <1>1, CurrentStatement DEF Shaped, Size
  <1> QED BY <1>2, CurrentStatement

LEMMA FoundIsMine ==
  ASSUME AccountTypeOK, OthersApart, NEW t
  PROVE  Found(t) \subseteq OfTable(Mine(There), t)
  <1>1. SUFFICES ASSUME NEW r \in Found(t)
                 PROVE  r \in There /\ OwnerOf[r] = Account /\ TableOf[r] = t
    BY DEF OfTable, Mine
  <1>2. r \in There /\ TableOf[r] = t BY DEF Found, There
  <1>3. r \in Rows BY <1>2 DEF There, AccountTypeOK
  <1>4. CASE t \in {"constraints", "recommendation"}
    <2>1. PICK p \in RefersTo[r] : p \in op.ids BY <1>4 DEF Found
    <2>2. OwnerOf[p] = Account BY <2>1 DEF OthersApart, OfTable, Mine
    <2>3. p \in Cascades(r) BY <1>2, <1>3, <1>4, <2>1, Schema
    <2> QED BY <1>2, <1>3, <2>2, <2>3, Schema
  <1>5. CASE t \notin {"constraints", "recommendation"} BY <1>2, <1>5 DEF Found
  <1> QED BY <1>4, <1>5

LEMMA SteadyIsFound ==
  ASSUME AccountTypeOK, SteadyRead, op.pc \in 1..Size(op.command), Statement[1] # "delete"
  PROVE  OfTable(Mine(op.steady), Statement[2]) \subseteq Found(Statement[2])
  <1> DEFINE t == Statement[2]
  <1>1. SUFFICES ASSUME NEW r \in op.steady, OwnerOf[r] = Account, TableOf[r] = t
                 PROVE  r \in Found(t)
    BY DEF OfTable, Mine
  <1>2. Reading BY QueriesRead
  <1>3. op.pc # 0 /\ op.pc =< Size(op.command) + 1 /\ op.pc \in Nat
    BY CurrentStatement DEF AccountTypeOK, OpTypeOK
  <1>4. r \in There BY <1>1, <1>2, <1>3 DEF SteadyRead
  <1>5. r \in Rows BY <1>4 DEF There, AccountTypeOK
  <1>6. CASE t \in {"constraints", "recommendation"}
    <2>1. PICK m \in 1..Size(op.command) :
             m < op.pc /\ ReadsIds(Program(op.command)[m])
      BY <1>6, CurrentStatement DEF Shaped, Size
    <2>2. OfTable(Mine(op.steady), "request") \subseteq op.ids
      BY <1>3, <2>1 DEF SteadyRead, Passed
    <2>3. PICK p \in Cascades(r) : p \in RefersTo[r]
      <3>1. TableOf[r] # "user" BY <1>1, <1>6
      <3> QED BY <1>5, <3>1, Schema
    <2>4. OwnerOf[p] = Account /\ TableOf[p] = "request"
      BY <1>1, <1>5, <1>6, <2>3, Schema
    <2>5. p \in op.steady BY <1>1, <1>3, <2>3 DEF SteadyRead
    <2>6. p \in op.ids BY <2>2, <2>4, <2>5 DEF OfTable, Mine
    <2> QED BY <1>1, <1>4, <1>6, <2>3, <2>6 DEF Found, There
  <1>7. CASE t \notin {"constraints", "recommendation"}
    BY <1>1, <1>4, <1>7 DEF Found, There
  <1> QED BY <1>6, <1>7

LEMMA AloneIsSteady ==
  ASSUME AccountTypeOK, OthersApart, SteadyRead, AloneReads, op.alone,
         op.pc \in 1..Size(op.command), Statement[1] # "delete"
  PROVE  Found(Statement[2]) = OfTable(Mine(op.steady), Statement[2])
  <1>1. op.pc # 0 /\ op.pc =< Size(op.command) + 1
    BY CurrentStatement DEF AccountTypeOK, OpTypeOK
  <1>2. There \subseteq op.steady BY <1>1, QueriesRead DEF AloneReads
  <1>3. Found(Statement[2]) \subseteq OfTable(Mine(op.steady), Statement[2])
    BY <1>2, FoundIsMine DEF OfTable, Mine
  <1> QED BY <1>3, SteadyIsFound

-----------------------------------------------------------------------------
(* Queries *)

LEMMA QueryEffect ==
  ASSUME AccountTypeOK, Query
  PROVE  /\ rows' = rows /\ writer' = writer
         /\ op.pc \in 1..Size(op.command) /\ Statement[1] # "delete"
         /\ op'.pc = op.pc + 1 /\ op'.command = op.command /\ op'.gone = op.gone
         /\ op'.steady = op.steady /\ op'.alone = op.alone
         /\ op'.ids = IF ReadsIds(Statement) THEN Found("request") ELSE op.ids
         /\ op'.exported = op.exported
               \cup (IF Statement[1] = "export" THEN Found(Statement[2]) ELSE {})
         /\ op'.counts = IF Statement[1] = "count"
               THEN Append(op.counts, <<Statement[2], Cardinality(Found(Statement[2]))>>)
               ELSE op.counts
         /\ AccountTypeOK'
  <1> DEFINE k == Statement[1]
             t == Statement[2]
             F == Found(t)
             C == Append(op.counts, <<t, Cardinality(F)>>)
  <1>1. op.pc \in 1..Size(op.command) /\ rows' = rows /\ writer' = writer
    BY DEF Query, Size
  <1>2. /\ Statement = <<k, t>> /\ t \in Tables /\ op.command \in Commands
        /\ k = "ids" => t = "request"
    BY <1>1, CurrentStatement DEF Shaped, Size
  <1>3. F \in SUBSET Rows BY DEF Found, AccountTypeOK
  <1>4. C \in Seq(CountedRows)
    <2>1. <<t, Cardinality(F)>> \in CountedRows BY <1>2, <1>3 DEF CountedRows
    <2>2. op.counts \in Seq(CountedRows) BY DEF AccountTypeOK, OpTypeOK
    <2> QED BY <2>1, <2>2
  <1>5. ReadsIds(Statement) <=> (k = "export" /\ t = "request") \/ k = "ids"
    BY <1>2 DEF ReadsIds
  <1>6. \/ /\ k = "export"
           /\ op' = [[op EXCEPT !.exported = @ \cup F,
                                !.ids = IF t = "request" THEN F ELSE @] EXCEPT !.pc = @ + 1]
        \/ /\ k = "ids"
           /\ op' = [[op EXCEPT !.ids = F] EXCEPT !.pc = @ + 1]
        \/ /\ k = "count"
           /\ op' = [[op EXCEPT !.counts = C] EXCEPT !.pc = @ + 1]
    BY DEF Query, Ran, Payload
  <1> HIDE DEF k, t, F, C
  <1>7. OpTypeOK /\ op.pc \in Nat BY DEF AccountTypeOK, OpTypeOK
  <1>8. /\ op'.pc = op.pc + 1 /\ op'.command = op.command /\ op'.gone = op.gone
        /\ op'.steady = op.steady /\ op'.alone = op.alone
        /\ op'.ids = IF (k = "export" /\ t = "request") \/ k = "ids" THEN F ELSE op.ids
        /\ op'.exported = op.exported \cup (IF k = "export" THEN F ELSE {})
        /\ op'.counts = IF k = "count" THEN C ELSE op.counts
    BY <1>6, <1>7 DEF OpTypeOK
  <1>9. OpTypeOK'
    <2>1. op.pc + 1 \in Nat BY <1>7
    <2>2. CASE op' = [[op EXCEPT !.exported = @ \cup F,
                                !.ids = IF t = "request" THEN F ELSE @] EXCEPT !.pc = @ + 1]
      BY <1>3, <1>7, <2>1, <2>2 DEF OpTypeOK
    <2>3. CASE op' = [[op EXCEPT !.ids = F] EXCEPT !.pc = @ + 1]
      BY <1>3, <1>7, <2>1, <2>3 DEF OpTypeOK
    <2>4. CASE op' = [[op EXCEPT !.counts = C] EXCEPT !.pc = @ + 1]
      BY <1>4, <1>7, <2>1, <2>4 DEF OpTypeOK
    <2> QED BY <1>6, <2>2, <2>3, <2>4
  <1>10. AccountTypeOK' BY <1>1, <1>2, <1>8, <1>9 DEF AccountTypeOK
  <1>11. k # "delete" BY <1>6
  <1>12. (k = "export" /\ t = "request") \/ k = "ids" => F = Found("request") BY <1>2 DEF F
  <1> QED BY <1>1, <1>5, <1>8, <1>10, <1>11, <1>12 DEF k, t, F, C

(* What a statement adds to those that have run.                            *)
LEMMA PassedOn ==
  ASSUME AccountTypeOK, op.pc \in 1..Size(op.command), op'.pc = op.pc + 1,
         op'.command = op.command
  PROVE  /\ op'.pc \in Nat /\ op'.pc # 0 /\ Size(op.command)' = Size(op.command)
         /\ op.pc # 0 /\ op.pc =< Size(op.command) + 1 /\ op'.pc =< Size(op.command) + 1
         /\ \A n \in 1..Size(op.command) : Passed(n)' <=> Passed(n) \/ n = op.pc
  <1>1. op.pc \in Nat /\ Size(op.command) \in Nat /\ Size(op.command)' = Size(op.command)
    BY CurrentStatement DEF AccountTypeOK, OpTypeOK, Size
  <1>2. \A n \in 1..Size(op.command) : n < op.pc + 1 <=> n < op.pc \/ n = op.pc BY <1>1
  <1> QED BY <1>1, <1>2 DEF Passed

LEMMA QueryKeeps ==
  ASSUME AccountInv, Query
  PROVE  AccountInv'
  <1> DEFINE k == Statement[1]
             t == Statement[2]
  <1>1. AccountTypeOK' /\ AccountTypeOK BY QueryEffect DEF AccountInv
  <1>2. op.pc \in 1..Size(op.command) /\ k # "delete" BY <1>1, QueryEffect
  <1>3. /\ op.command \in Commands /\ Program(op.command)[op.pc] = Statement
        /\ Statement = <<k, t>>
    BY <1>1, <1>2, CurrentStatement
  <1>4. There' = There BY <1>1, QueryEffect DEF There
  <1>5. Found(t) \subseteq OfTable(Mine(There), t)
        /\ Found("request") \subseteq OfTable(Mine(There), "request")
    BY <1>1, FoundIsMine DEF AccountInv
  <1>6. OfTable(Mine(op.steady), t) \subseteq Found(t)
    BY <1>1, <1>2, SteadyIsFound DEF AccountInv
  <1>7. Reading BY <1>1, <1>2, QueriesRead
  <1>8. There \subseteq Rows BY <1>1 DEF There, AccountTypeOK
  <1>9. /\ op'.pc # 0 /\ op.pc # 0 /\ Size(op.command)' = Size(op.command)
        /\ op.pc =< Size(op.command) + 1
        /\ \A n \in 1..Size(op.command) : Passed(n)' <=> Passed(n) \/ n = op.pc
        /\ Program(op.command)' = Program(op.command)
    BY <1>1, <1>2, QueryEffect, PassedOn
  <1>10. ReadsIds(Statement) => t = "request" BY <1>3 DEF ReadsIds
  <1>11. KeysHold' BY <1>1, <1>4, QueryEffect DEF AccountInv, KeysHold
  <1>12. /\ Found("request") \subseteq OfTable(Mine(Rows), "request")
         /\ Found(t) \subseteq Mine(Rows)
    BY <1>5, <1>8 DEF OfTable, Mine
  <1>13. OthersApart'
    <2>1. OthersApart BY DEF AccountInv
    <2>2. op'.ids \subseteq OfTable(Mine(Rows), "request")
      BY <1>1, <1>12, <2>1, QueryEffect DEF OthersApart
    <2>3. op'.exported \subseteq Mine(Rows)
      BY <1>1, <1>12, <2>1, QueryEffect DEF OthersApart
    <2>4. Mine(Rows)' = Mine(Rows)
          /\ OfTable(Mine(Rows), "request")' = OfTable(Mine(Rows), "request")
      BY DEF Mine, OfTable
    <2> QED BY <1>4, <2>1, <2>2, <2>3, <2>4 DEF OthersApart, Others
  <1>14. UserKept'
    <2>1. UserKept BY DEF AccountInv
    <2>2. ~(Deletes' /\ op'.pc = Size(op.command) + 1)
      <3>1. SUFFICES ASSUME op.command \in {"delete", "smoke"}, op.pc = Size(op.command)
                     PROVE  FALSE
        BY <1>1, <1>2, <1>3, QueryEffect, Sizes DEF Deletes, AccountTypeOK, OpTypeOK
      <3>2. Program(op.command)[op.pc] = <<"delete", "user">>
        BY <1>1, <1>2, <3>1, CurrentStatement DEF Shaped, Size
      <3> QED BY <1>2, <1>3, <3>2
    <2>3. op.pc \in 1..(Size(op.command) + 1)
      BY <1>2, <1>3, Sizes
    <2>4. OfTable(Mine(rows), "user")' = OfTable(Mine(rows), "user")
          /\ OfTable(Mine(Rows), "user")' = OfTable(Mine(Rows), "user")
      BY <1>1, QueryEffect DEF OfTable, Mine
    <2> QED BY <1>1, <1>9, <2>1, <2>2, <2>3, <2>4, QueryEffect DEF UserKept
  <1>15. SteadyRead /\ op.steady \subseteq There BY <1>7, <1>9 DEF AccountInv, SteadyRead
  <1>16. /\ Mine(op.steady)' = Mine(op.steady)
         /\ \A u \in Tables :
              OfTable(Mine(op.steady), u)' = OfTable(Mine(op.steady), u)
    BY <1>1, QueryEffect DEF OfTable, Mine
  <1>17. SteadyRead'
    <2>1. ASSUME NEW n \in 1..Size(op.command), Passed(n)', ReadsIds(Program(op.command)[n])
          PROVE  OfTable(Mine(op.steady), "request") \subseteq op'.ids
      <3>1. CASE ReadsIds(Statement) BY <1>1, <1>6, <1>10, <3>1, QueryEffect
      <3>2. CASE ~ReadsIds(Statement)
        <4>1. Passed(n) /\ op'.ids = op.ids BY <1>1, <1>3, <1>9, <2>1, <3>2, QueryEffect
        <4> QED BY <1>9, <1>15, <2>1, <4>1 DEF SteadyRead
      <3> QED BY <3>1, <3>2
    <2>2. ASSUME NEW n \in 1..Size(op.command), Passed(n)', Program(op.command)[n][1] = "export"
          PROVE  OfTable(Mine(op.steady), Program(op.command)[n][2]) \subseteq op'.exported
      <3>1. CASE Passed(n) BY <1>1, <1>9, <1>15, <2>2, <3>1, QueryEffect DEF SteadyRead
      <3>2. CASE n = op.pc BY <1>1, <1>3, <1>6, <2>2, <3>2, QueryEffect
      <3> QED BY <1>9, <2>2, <3>1, <3>2
    <2>3. (\A r \in op.steady : Cascades(r) \subseteq op.steady)'
      BY <1>1, <1>9, <1>15, QueryEffect DEF SteadyRead, Cascades
    <2>4. (op.steady \subseteq There)' BY <1>1, <1>4, <1>15, QueryEffect
    <2> QED BY <1>1, <1>9, <2>1, <2>2, <2>3, <2>4, QueryEffect DEF SteadyRead
  <1>18. AloneReads'
    <2> SUFFICES ASSUME op.alone PROVE AloneReads'
      BY <1>1, QueryEffect DEF AloneReads
    <2>1. AloneReads /\ There \subseteq op.steady BY <1>7, <1>9 DEF AccountInv, AloneReads
    <2>2. op'.ids \subseteq op.steady
      <3>1. Found("request") \subseteq op.steady BY <1>5, <2>1 DEF OfTable, Mine
      <3> QED BY <1>1, <1>9, <2>1, <3>1, QueryEffect DEF AloneReads
    <2>3. ASSUME NEW n \in DOMAIN op'.counts
          PROVE  op'.counts[n][2] = Cardinality(OfTable(Mine(op.steady), op'.counts[n][1]))
      <3>1. CASE Statement[1] # "count"
        BY <1>1, <1>9, <2>1, <2>3, <3>1, QueryEffect DEF AloneReads
      <3>2. CASE Statement[1] = "count"
        <4> DEFINE c == <<t, Cardinality(Found(t))>>
        <4>1. op'.counts = Append(op.counts, c) BY <1>1, <3>2, QueryEffect
        <4>2. c[2] = Cardinality(OfTable(Mine(op.steady), c[1]))
          BY <1>1, <1>2, <1>15, AloneIsSteady, <2>1 DEF AccountInv
        <4> HIDE DEF c
        <4>3. op.counts \in Seq(CountedRows) BY <1>1 DEF AccountTypeOK, OpTypeOK
        <4>4. CASE n = Len(op.counts) + 1
          <5>1. op'.counts[n] = c BY <4>1, <4>3, <4>4
          <5> QED BY <4>2, <5>1
        <4>5. CASE n # Len(op.counts) + 1
          <5>1. n \in DOMAIN op.counts /\ op'.counts[n] = op.counts[n]
            BY <2>3, <4>1, <4>3, <4>5
          <5> QED BY <1>9, <2>1, <5>1 DEF AloneReads
        <4> QED BY <4>4, <4>5
      <3> QED BY <3>1, <3>2
    <2>4. ASSUME NEW n \in 1..Size(op.command), Passed(n)',
                 Program(op.command)[n] = <<"delete", "notification">>
          PROVE  FALSE
      <3>1. Program(op.command)[n][1] = "delete" BY <2>4
      <3>2. CASE Passed(n) BY <1>7, <3>1, <3>2 DEF Reading
      <3>3. CASE n = op.pc BY <1>2, <1>3, <3>1, <3>3
      <3> QED BY <1>9, <2>4, <3>2, <3>3
    <2>5. /\ \A w \in Writers : writer'[w] = NoRow
          /\ There' \subseteq op'.steady /\ op'.ids \subseteq op'.steady
      BY <1>1, <1>4, <1>9, <2>1, <2>2, QueryEffect DEF AloneReads
    <2>6. \A n \in DOMAIN op'.counts : op'.counts[n][2] =
             Cardinality(OfTable(Mine(op'.steady), op'.counts[n][1]))
      BY <1>1, <2>3, QueryEffect
    <2> QED BY <1>1, <1>9, <2>4, <2>5, <2>6, QueryEffect DEF AloneReads
  <1> QED BY <1>1, <1>11, <1>13, <1>14, <1>17, <1>18 DEF AccountInv

-----------------------------------------------------------------------------
(* DELETE statements *)

LEMMA NoOpKeeps ==
  ASSUME AccountInv, op' = NoOp, rows' = rows, writer' = writer
  PROVE  AccountInv'
  <1>1. /\ op'.pc = 0 /\ op'.gone = {} /\ op'.ids = {} /\ op'.exported = {}
        /\ op'.command = "none"
    BY DEF NoOp
  <1>2. /\ AccountTypeOK /\ KeysHold /\ OthersApart /\ UserKept BY DEF AccountInv
  <1>3. OpTypeOK'
    <2>1. <<>> \in Seq(CountedRows) OBVIOUS
    <2> QED BY <2>1 DEF OpTypeOK, NoOp
  <1>4. There' = rows /\ There \subseteq rows BY <1>1 DEF There
  <1>5. AccountTypeOK' BY <1>1, <1>2, <1>3 DEF AccountTypeOK
  <1>6. KeysHold' BY <1>2, <1>4 DEF KeysHold, Cascades
  <1>7. OthersApart' BY <1>1, <1>2, <1>4 DEF OthersApart, Others
  <1>8. UserKept'
    <2>1. Size(op.command)' \in Nat BY <1>1, Sizes DEF Size
    <2>2. op'.pc \notin 1..(Size(op.command)' + 1) /\ op'.pc # Size(op.command)' + 1
      BY <1>1, <2>1
    <2>3. OfTable(Mine(Rows), "user")' = OfTable(Mine(Rows), "user") BY DEF OfTable, Mine
    <2> QED BY <1>2, <2>2, <2>3 DEF UserKept
  <1>9. SteadyRead' /\ AloneReads' BY <1>1 DEF SteadyRead, AloneReads
  <1> QED BY <1>5, <1>6, <1>7, <1>8, <1>9 DEF AccountInv

LEMMA RemoveEffect ==
  ASSUME AccountTypeOK, DeleteRows
  PROVE  LET S == WithCascade(Found(Statement[2])) IN
         /\ rows' = rows /\ writer' = writer
         /\ op.pc \in 1..Size(op.command) /\ Statement[1] = "delete"
         /\ \A w \in Writers : writer[w] # NoRow => RefersTo[writer[w]] \cap S = {}
         /\ \/ /\ op' = NoOp
               /\ \E n \in There \ S : Refuses(n) \cap S # {}
            \/ /\ op'.pc = op.pc + 1 /\ op'.command = op.command /\ op'.gone = op.gone \cup S
               /\ op'.ids = op.ids /\ op'.counts = op.counts /\ op'.exported = op.exported
               /\ op'.steady = op.steady /\ op'.alone = op.alone
               /\ S \subseteq Rows => AccountTypeOK'
  <1> DEFINE S == WithCascade(Found(Statement[2]))
  <1>1. /\ op.pc \in 1..Size(op.command) /\ Statement[1] = "delete"
        /\ rows' = rows /\ writer' = writer /\ ~Locked(S)
        /\ op' = IF \E n \in rows \ (op.gone \cup S) : Refuses(n) \cap S # {} THEN NoOp
                 ELSE Ran([op EXCEPT !.gone = @ \cup S])
    BY DEF DeleteRows, Size
  <1> HIDE DEF S
  <1>2. \A w \in Writers : writer[w] # NoRow => RefersTo[writer[w]] \cap S = {}
    BY <1>1 DEF Locked
  <1>3. rows \ (op.gone \cup S) = There \ S BY DEF There
  <1>4. OpTypeOK /\ op.pc + 1 \in Nat /\ op.command \in Commands
    BY <1>1, CurrentStatement DEF AccountTypeOK, OpTypeOK
  <1>5. CASE op' = [[op EXCEPT !.gone = @ \cup S] EXCEPT !.pc = @ + 1]
    <2>1. /\ op'.pc = op.pc + 1 /\ op'.command = op.command /\ op'.gone = op.gone \cup S
          /\ op'.ids = op.ids /\ op'.counts = op.counts /\ op'.exported = op.exported
          /\ op'.steady = op.steady /\ op'.alone = op.alone
      BY <1>4, <1>5 DEF OpTypeOK
    <2>2. S \subseteq Rows => OpTypeOK' BY <1>4, <1>5 DEF OpTypeOK
    <2>3. S \subseteq Rows => AccountTypeOK'
      BY <1>1, <1>4, <2>1, <2>2 DEF AccountTypeOK
    <2> QED BY <1>1, <1>2, <2>1, <2>3 DEF S
  <1>6. CASE op' = NoOp /\ \E n \in There \ S : Refuses(n) \cap S # {}
    BY <1>1, <1>2, <1>6 DEF S
  <1> QED BY <1>1, <1>3, <1>5, <1>6 DEF Ran

LEMMA DeleteKeeps ==
  ASSUME AccountInv, DeleteRows
  PROVE  AccountInv'
  <1> DEFINE t == Statement[2]
             S == WithCascade(Found(t))
  <1>1. AccountTypeOK /\ KeysHold /\ OthersApart /\ UserKept /\ SteadyRead /\ AloneReads
    BY DEF AccountInv
  <1>2. /\ rows' = rows /\ writer' = writer
        /\ op.pc \in 1..Size(op.command) /\ Statement[1] = "delete"
        /\ \A w \in Writers : writer[w] # NoRow => RefersTo[writer[w]] \cap S = {}
    BY <1>1, RemoveEffect
  <1>3. There \subseteq Rows /\ rows \in SUBSET Rows BY <1>1 DEF There, AccountTypeOK
  <1>4. /\ Found(t) \subseteq S /\ S \subseteq Mine(There)
        /\ \A r \in There : Cascades(r) \cap S # {} => r \in S
    <2>1. Found(t) \subseteq Mine(There) BY <1>1, FoundIsMine DEF OfTable, Mine
    <2> QED BY <1>3, <2>1, CascadeCloses
  <1>5. S \subseteq Rows BY <1>3, <1>4 DEF Mine
  <1>6. CASE op' = NoOp BY <1>2, <1>6, NoOpKeeps
  <1>7. CASE op' # NoOp
    <2>1. /\ op'.pc = op.pc + 1 /\ op'.command = op.command /\ op'.gone = op.gone \cup S
          /\ op'.ids = op.ids /\ op'.counts = op.counts /\ op'.exported = op.exported
          /\ op'.steady = op.steady /\ op'.alone = op.alone /\ AccountTypeOK'
      BY <1>1, <1>5, <1>7, RemoveEffect
    <2>2. /\ op.command \in Commands /\ Program(op.command)[op.pc] = Statement
          /\ Statement = <<"delete", t>> /\ Size(op.command) \in Nat \ {0}
      BY <1>1, <1>2, CurrentStatement
    <2>3. /\ op'.pc # 0 /\ op.pc # 0 /\ Size(op.command)' = Size(op.command)
          /\ op.pc =< Size(op.command) + 1 /\ op'.pc =< Size(op.command) + 1
          /\ \A n \in 1..Size(op.command) : Passed(n)' <=> Passed(n) \/ n = op.pc
          /\ Program(op.command)' = Program(op.command)
      BY <1>1, <1>2, <2>1, PassedOn
    <2> HIDE DEF S, t
    <2>4. There' = There \ S BY <1>2, <2>1 DEF There
    <2>5. KeysHold'
      <3>1. \A r \in There \ S : Cascades(r) \subseteq There \ S BY <1>1, <1>4 DEF KeysHold
      <3>2. \A w \in Writers : writer[w] # NoRow => RefersTo[writer[w]] \subseteq There \ S
        BY <1>1, <1>2 DEF KeysHold
      <3>3. (\A r \in rows : Cascades(r) \subseteq rows)' BY <1>1, <1>2 DEF KeysHold, Cascades
      <3>4. (\A r \in There : Cascades(r) \subseteq There)' BY <2>4, <3>1 DEF Cascades
      <3> QED BY <1>2, <2>4, <3>2, <3>3, <3>4 DEF KeysHold
    <2>6. OthersApart'
      <3>1. Others \subseteq There \ S BY <1>1, <1>4 DEF OthersApart, Others, Mine
      <3>2. Mine(Rows)' = Mine(Rows)
            /\ OfTable(Mine(Rows), "request")' = OfTable(Mine(Rows), "request")
        BY DEF Mine, OfTable
      <3> QED BY <1>1, <2>1, <2>4, <3>1, <3>2 DEF OthersApart, Others
    <2>7. t \notin {"constraints", "recommendation"} =>
             OfTable(Mine(There), t) \subseteq Found(t)
      BY DEF OfTable, Mine, There, Found
    <2>8. UserKept'
      <3>1. ASSUME Deletes', op'.pc = Size(op.command) + 1
            PROVE  OfTable(Mine(There), "user")' = {}
        <4>1. op.command \in {"delete", "smoke"} /\ op.pc = Size(op.command)
          BY <1>1, <2>1, <2>2, <3>1 DEF Deletes, AccountTypeOK, OpTypeOK
        <4>2. Program(op.command)[op.pc] = <<"delete", "user">>
          BY <1>1, <1>2, <4>1, CurrentStatement DEF Shaped, Size
        <4>3. t = "user" BY <2>2, <4>2
        <4>4. OfTable(Mine(There), "user") \subseteq S BY <1>4, <2>7, <4>3
        <4> QED BY <2>4, <4>4 DEF OfTable, Mine
      <3>2. op.pc \in 1..(Size(op.command) + 1) BY <1>2, <2>2
      <3>3. OfTable(Mine(rows), "user")' = OfTable(Mine(rows), "user")
            /\ OfTable(Mine(Rows), "user")' = OfTable(Mine(Rows), "user")
        BY <1>2 DEF OfTable, Mine
      <3> QED BY <1>1, <1>2, <2>1, <2>3, <3>1, <3>2, <3>3 DEF UserKept
    <2>9. Program(op.command)[op.pc][1] = "delete" /\ ~ReadsIds(Program(op.command)[op.pc])
      BY <2>2 DEF ReadsIds
    <2>10. PICK p \in 1..Size(op.command) : p = op.pc BY <1>2
    <2>11. Passed(p)' /\ Program(op.command)[p][1] = "delete" BY <2>3, <2>9, <2>10
    <2>12. ~Reading' BY <2>1, <2>3, <2>11 DEF Reading
    <2>13. /\ Mine(op.steady)' = Mine(op.steady)
           /\ \A u : OfTable(Mine(op.steady), u)' = OfTable(Mine(op.steady), u)
      BY <2>1 DEF OfTable, Mine
    <2>14. SteadyRead'
      <3>1. ASSUME NEW n \in 1..Size(op.command), Passed(n)',
                   \/ ReadsIds(Program(op.command)[n])
                   \/ Program(op.command)[n][1] = "export"
            PROVE  Passed(n)
        BY <2>3, <2>9, <3>1
      <3>2. (\A r \in op.steady : Cascades(r) \subseteq op.steady)'
        BY <1>1, <2>1, <2>3 DEF SteadyRead, Cascades
      <3>3. ASSUME NEW n \in 1..Size(op.command), Passed(n)',
                   ReadsIds(Program(op.command)[n])
            PROVE  OfTable(Mine(op.steady), "request") \subseteq op.ids
        BY <1>1, <2>3, <3>1, <3>3 DEF SteadyRead
      <3>4. ASSUME NEW n \in 1..Size(op.command), Passed(n)',
                   Program(op.command)[n][1] = "export"
            PROVE  OfTable(Mine(op.steady), Program(op.command)[n][2]) \subseteq op.exported
        BY <1>1, <2>3, <3>1, <3>4 DEF SteadyRead
      <3> QED BY <2>1, <2>3, <2>12, <3>2, <3>3, <3>4 DEF SteadyRead
    <2>15. AloneReads'
      <3> SUFFICES ASSUME op.alone PROVE AloneReads'
        BY <2>1 DEF AloneReads
      <3>1. ASSUME NEW n \in 1..Size(op.command), Passed(n)',
                   Program(op.command)[n] = <<"delete", "notification">>
            PROVE  OfTable(Mine(There), "notification")' = {}
        <4>1. CASE Passed(n)
          <5>1. OfTable(Mine(There), "notification") = {}
            BY <1>1, <2>3, <3>1, <4>1 DEF AloneReads
          <5> QED BY <2>4, <5>1 DEF OfTable, Mine
        <4>2. CASE n = op.pc
          <5>1. t = "notification" BY <2>2, <3>1, <4>2
          <5>2. OfTable(Mine(There), "notification") \subseteq S BY <1>4, <2>7, <5>1
          <5> QED BY <2>4, <5>2 DEF OfTable, Mine
        <4> QED BY <2>3, <3>1, <4>1, <4>2
      <3>2. /\ \A w \in Writers : writer'[w] = NoRow
            /\ op'.ids \subseteq op'.steady
            /\ \A n \in DOMAIN op'.counts : op'.counts[n][2] =
                 Cardinality(OfTable(Mine(op'.steady), op'.counts[n][1]))
        BY <1>1, <1>2, <2>1, <2>3 DEF AloneReads
      <3> QED BY <2>1, <2>3, <2>12, <3>1, <3>2 DEF AloneReads
    <2> QED BY <2>1, <2>5, <2>6, <2>8, <2>14, <2>15 DEF AccountInv
  <1> QED BY <1>6, <1>7

(* Nothing refuses the statements of a transaction that is alone: its first *)
(* one has deleted whatever could.                                          *)
LEMMA AloneNotRefused ==
  ASSUME AccountInv, DeleteRows, op.alone
  PROVE  op'.pc # 0
  <1> DEFINE t == Statement[2]
             S == WithCascade(Found(t))
  <1>1. AccountTypeOK /\ OthersApart /\ AloneReads BY DEF AccountInv
  <1>2. op.pc \in 1..Size(op.command) /\ Statement[1] = "delete" BY <1>1, RemoveEffect
  <1>3. op.pc \in Nat /\ op.pc # 0 /\ op.pc =< Size(op.command) + 1
    BY <1>1, <1>2, CurrentStatement DEF AccountTypeOK, OpTypeOK
  <1>4. SUFFICES ASSUME \E n \in There \ S : Refuses(n) \cap S # {} PROVE FALSE
    <2>1. op.pc + 1 # 0 BY <1>3
    <2> QED BY <1>1, <2>1, RemoveEffect
  <1>5. There \subseteq Rows /\ rows \in SUBSET Rows BY <1>1 DEF There, AccountTypeOK
  <1>6. Found(t) \subseteq S /\ S \subseteq Mine(There)
    <2>1. Found(t) \subseteq Mine(There) BY <1>1, FoundIsMine DEF OfTable, Mine
    <2> QED BY <1>5, <2>1, CascadeCloses
  <1> HIDE DEF S
  <1>7. PICK n \in There \ S : \E p \in S : p \in Refuses(n) BY <1>4
  <1>8. OwnerOf[n] = Account /\ TableOf[n] = "notification"
    <2>1. PICK p \in S : p \in Refuses(n) BY <1>7
    <2>2. OwnerOf[p] = Account BY <1>6, <2>1 DEF Mine
    <2>3. OwnerOf[p] = OwnerOf[n] BY <1>5, <1>7, <2>1, NotificationsAreOwn
    <2> QED BY <2>1, <2>2, <2>3 DEF Refuses
  <1>9. n \in OfTable(Mine(There), "notification") BY <1>7, <1>8 DEF OfTable, Mine
  <1>10. CASE t = "notification"
    <2>1. n \in Found(t) BY <1>7, <1>8, <1>10 DEF Found, There
    <2> QED BY <1>6, <1>7, <2>1
  <1>11. CASE t # "notification"
    <2>1. /\ Shaped(op.command, Program(op.command))
          /\ Statement = Program(op.command)[op.pc] /\ Statement # <<"delete", "notification">>
      BY <1>1, <1>2, <1>11, CurrentStatement
    <2>2. PICK m \in 1..Size(op.command) :
             m < op.pc /\ Program(op.command)[m] = <<"delete", "notification">>
      BY <1>2, <2>1 DEF Shaped, Size
    <2>3. OfTable(Mine(There), "notification") = {}
      BY <1>1, <1>3, <2>2 DEF AloneReads, Passed
    <2> QED BY <1>9, <2>3
  <1> QED BY <1>10, <1>11

-----------------------------------------------------------------------------
(* The other steps *)

LEMMA StartKeeps ==
  ASSUME AccountInv, NEW command \in Commands, Start(command)
  PROVE  AccountInv'
  <1>1. /\ op.pc = 0 /\ \E r \in rows : TableOf[r] = "user" /\ OwnerOf[r] = Account
        /\ op' = [NoOp EXCEPT !.pc = 1, !.command = command, !.steady = rows,
                              !.alone = \A w \in Writers : writer[w] = NoRow]
        /\ rows' = rows /\ writer' = writer
    BY DEF Start
  <1>2. /\ op'.pc = 1 /\ op'.command = command /\ op'.steady = rows /\ op'.ids = {}
        /\ op'.counts = <<>> /\ op'.exported = {} /\ op'.gone = {}
        /\ op'.alone => \A w \in Writers : writer[w] = NoRow
        /\ op'.alone \in BOOLEAN
    BY <1>1 DEF NoOp
  <1>3. AccountTypeOK /\ KeysHold /\ OthersApart /\ UserKept BY DEF AccountInv
  <1>4. rows \in SUBSET Rows BY <1>3 DEF AccountTypeOK
  <1>5. OpTypeOK'
    <2>1. <<>> \in Seq(CountedRows) OBVIOUS
    <2>2. op' = [pc |-> 1, command |-> command, ids |-> {}, counts |-> <<>>,
                 exported |-> {}, gone |-> {}, steady |-> rows,
                 alone |-> \A w \in Writers : writer[w] = NoRow]
      BY <1>1 DEF NoOp
    <2> QED BY <1>4, <2>1, <2>2 DEF OpTypeOK
  <1>6. AccountTypeOK' BY <1>1, <1>2, <1>3, <1>5 DEF AccountTypeOK
  <1>7. There' = rows /\ There \subseteq rows BY <1>1, <1>2 DEF There
  <1>8. KeysHold' BY <1>1, <1>3, <1>7 DEF KeysHold, Cascades
  <1>9. OthersApart' BY <1>2, <1>3, <1>7 DEF OthersApart, Others
  <1>10. Size(op.command)' = Size(command) /\ Size(command) \in Nat \ {0}
    BY <1>2, Sizes DEF Size
  <1>11. UserKept'
    <2>1. OfTable(Mine(rows), "user")' # {} BY <1>1 DEF OfTable, Mine
    <2>2. OfTable(Mine(Rows), "user")' = OfTable(Mine(Rows), "user") BY DEF OfTable, Mine
    <2>3. op'.pc # Size(op.command)' + 1 BY <1>2, <1>10
    <2> QED BY <1>1, <1>3, <2>1, <2>2, <2>3 DEF UserKept
  <1>12. \A n \in 1..Size(command) : ~Passed(n)' BY <1>2 DEF Passed
  <1>13. SteadyRead'
    <2>1. (\A r \in op.steady : Cascades(r) \subseteq op.steady)'
      BY <1>2, <1>3 DEF KeysHold, Cascades
    <2> QED BY <1>2, <1>7, <1>10, <1>12, <2>1 DEF SteadyRead
  <1>14. AloneReads' BY <1>1, <1>2, <1>7, <1>10, <1>12 DEF AloneReads
  <1> QED BY <1>6, <1>8, <1>9, <1>11, <1>13, <1>14 DEF AccountInv

LEMMA FinishKeeps ==
  ASSUME AccountInv, Finish
  PROVE  AccountInv'
  <1>1. AccountTypeOK /\ KeysHold /\ OthersApart /\ UserKept /\ SteadyRead /\ AloneReads
    BY DEF AccountInv
  <1>2. /\ op.pc > 0 /\ op.pc = Size(op.command) + 1 /\ rows' = There /\ writer' = writer
        /\ op' = [[op EXCEPT !.pc = @ + 1] EXCEPT !.gone = {}]
    BY DEF Finish, Size, There, Ran
  <1>3. OpTypeOK /\ op.pc + 1 \in Nat /\ op.command \in Commands /\ op.pc # 0
    BY <1>1, <1>2 DEF AccountTypeOK, OpTypeOK
  <1>4. /\ op'.pc = op.pc + 1 /\ op'.command = op.command /\ op'.gone = {}
        /\ op'.ids = op.ids /\ op'.counts = op.counts /\ op'.exported = op.exported
        /\ op'.steady = op.steady /\ op'.alone = op.alone
    BY <1>2, <1>3 DEF OpTypeOK
  <1>5. OpTypeOK' BY <1>2, <1>3 DEF OpTypeOK
  <1>6. AccountTypeOK'
    <2>1. There \subseteq Rows BY <1>1 DEF There, AccountTypeOK
    <2> QED BY <1>1, <1>2, <1>3, <1>4, <1>5, <2>1 DEF AccountTypeOK
  <1>7. There' = There BY <1>2, <1>4 DEF There
  <1>8. KeysHold' BY <1>1, <1>2, <1>7 DEF KeysHold, Cascades
  <1>9. OthersApart'
    <2>1. Mine(Rows)' = Mine(Rows)
          /\ OfTable(Mine(Rows), "request")' = OfTable(Mine(Rows), "request")
      BY DEF Mine, OfTable
    <2> QED BY <1>1, <1>4, <1>7, <2>1 DEF OthersApart, Others
  <1>10. /\ Size(op.command)' = Size(op.command) /\ Size(op.command) \in Nat \ {0}
         /\ Program(op.command)' = Program(op.command)
    BY <1>3, <1>4, Sizes DEF Size
  <1>11. /\ op'.pc # 0 /\ ~(op'.pc =< Size(op.command) + 1)
         /\ op'.pc # Size(op.command) + 1 /\ op'.pc \notin 1..(Size(op.command) + 1)
    BY <1>2, <1>4, <1>10
  <1>12. UserKept'
    <2>1. OfTable(Mine(Rows), "user")' = OfTable(Mine(Rows), "user") BY DEF OfTable, Mine
    <2> QED BY <1>1, <1>2, <1>10, <1>11, <2>1 DEF UserKept
  <1>13. \A n \in 1..Size(op.command) : Passed(n) BY <1>2, <1>10 DEF Passed
  <1>14. SteadyRead'
    <2>1. (\A r \in op.steady : Cascades(r) \subseteq op.steady)'
      BY <1>1, <1>3, <1>4 DEF SteadyRead, Cascades
    <2>2. \A n \in 1..Size(op.command) :
            /\ ReadsIds(Program(op.command)[n]) =>
                  OfTable(Mine(op.steady), "request") \subseteq op.ids
            /\ Program(op.command)[n][1] = "export" =>
                  OfTable(Mine(op.steady), Program(op.command)[n][2]) \subseteq op.exported
      BY <1>1, <1>3, <1>13 DEF SteadyRead
    <2> QED BY <1>4, <1>10, <1>11, <2>1, <2>2 DEF SteadyRead
  <1>15. AloneReads'
    <2> SUFFICES ASSUME op.alone PROVE AloneReads'
      BY <1>4 DEF AloneReads
    <2>1. /\ \A w \in Writers : writer'[w] = NoRow
          /\ op'.ids \subseteq op'.steady
          /\ \A n \in DOMAIN op'.counts : op'.counts[n][2] =
               Cardinality(OfTable(Mine(op'.steady), op'.counts[n][1]))
      BY <1>1, <1>2, <1>3, <1>4 DEF AloneReads
    <2> QED BY <1>4, <1>10, <1>11, <2>1 DEF AloneReads
  <1> QED BY <1>6, <1>8, <1>9, <1>12, <1>14, <1>15 DEF AccountInv

(* What goes on beside the command leaves the program where it is.          *)
LEMMA BesideIt ==
  ASSUME AccountTypeOK, op'.pc = op.pc, op'.command = op.command
  PROVE  /\ Size(op.command)' = Size(op.command) /\ Program(op.command)' = Program(op.command)
         /\ \A n \in 1..Size(op.command) : Passed(n)' <=> Passed(n)
         /\ Reading' <=> Reading
         /\ Changed => op.pc \in 1..(Size(op.command) + 1)
  <1>1. Size(op.command)' = Size(op.command) /\ Program(op.command)' = Program(op.command)
    BY DEF Size
  <1>2. \A n \in 1..Size(op.command) : Passed(n)' <=> Passed(n) BY <1>1 DEF Passed
  <1>3. Reading' <=> Reading BY <1>1, <1>2 DEF Reading
  <1>4. op.pc \in Nat /\ Size(op.command) \in Nat
    BY Sizes DEF AccountTypeOK, OpTypeOK
  <1>5. Changed => op.pc # 0 /\ op.pc =< Size(op.command) + 1 BY DEF Changed, Size
  <1>6. op.pc # 0 /\ op.pc =< Size(op.command) + 1 => op.pc \in 1..(Size(op.command) + 1)
    BY <1>4
  <1> QED BY <1>1, <1>2, <1>3, <1>5, <1>6

LEMMA InsertKeeps ==
  ASSUME AccountInv, NEW v \in Writers, NEW r \in Rows, Insert(v, r)
  PROVE  AccountInv'
  <1>1. AccountTypeOK /\ KeysHold /\ OthersApart /\ UserKept /\ SteadyRead
    BY DEF AccountInv
  <1>2. /\ r \notin rows /\ RefersTo[r] \subseteq There /\ Changed /\ rows' = rows
        /\ writer' = [writer EXCEPT ![v] = r] /\ op' = [op EXCEPT !.alone = FALSE]
    BY DEF Insert, There
  <1>3. OpTypeOK /\ writer \in [Writers -> Rows \cup {NoRow}] BY <1>1 DEF AccountTypeOK
  <1>4. /\ op'.pc = op.pc /\ op'.command = op.command /\ op'.gone = op.gone
        /\ op'.ids = op.ids /\ op'.counts = op.counts /\ op'.exported = op.exported
        /\ op'.steady = op.steady /\ op'.alone = FALSE /\ OpTypeOK'
    BY <1>2, <1>3 DEF OpTypeOK
  <1>5. /\ \A w \in Writers \ {v} : writer'[w] = writer[w]
        /\ writer'[v] = r /\ writer' \in [Writers -> Rows \cup {NoRow}]
    BY <1>2, <1>3
  <1>6. AccountTypeOK' BY <1>1, <1>2, <1>4, <1>5 DEF AccountTypeOK
  <1>7. There' = There BY <1>2, <1>4 DEF There
  <1>8. KeysHold'
    <2>1. \A w \in Writers : writer'[w] # NoRow => RefersTo[writer'[w]] \subseteq There
      BY <1>1, <1>2, <1>5 DEF KeysHold
    <2>2. (\A q \in rows : Cascades(q) \subseteq rows)' BY <1>1, <1>2 DEF KeysHold, Cascades
    <2>3. (\A q \in There : Cascades(q) \subseteq There)' BY <1>1, <1>7 DEF KeysHold, Cascades
    <2> QED BY <1>7, <2>1, <2>2, <2>3 DEF KeysHold
  <1>9. OthersApart'
    <2>1. Mine(Rows)' = Mine(Rows)
          /\ OfTable(Mine(Rows), "request")' = OfTable(Mine(Rows), "request")
      BY DEF Mine, OfTable
    <2> QED BY <1>1, <1>4, <1>7, <2>1 DEF OthersApart, Others
  <1>10. /\ Size(op.command)' = Size(op.command) /\ Program(op.command)' = Program(op.command)
         /\ \A n \in 1..Size(op.command) : Passed(n)' <=> Passed(n)
         /\ Reading' <=> Reading
         /\ op.pc \in 1..(Size(op.command) + 1)
    BY <1>1, <1>2, <1>4, BesideIt
  <1>11. UserKept'
    <2>1. r \notin OfTable(Mine(Rows), "user")
      <3>1. PICK u \in rows : TableOf[u] = "user" /\ OwnerOf[u] = Account
        BY <1>1, <1>10 DEF UserKept, OfTable, Mine
      <3>2. u \in Rows /\ u # r BY <1>1, <1>2 DEF AccountTypeOK
      <3> QED BY <3>1, <3>2, Schema DEF OfTable, Mine
    <2>2. /\ OfTable(Mine(Rows), "user")' = OfTable(Mine(Rows), "user")
          /\ OfTable(Mine(rows), "user")' = OfTable(Mine(rows), "user")
          /\ OfTable(Mine(There), "user")' = OfTable(Mine(There), "user")
      BY <1>2, <1>7 DEF OfTable, Mine
    <2> QED BY <1>1, <1>4, <1>5, <1>10, <2>1, <2>2 DEF UserKept, Deletes
  <1>12. SteadyRead'
    <2>1. /\ Mine(op.steady)' = Mine(op.steady)
          /\ (\A q \in op.steady : Cascades(q) \subseteq op.steady)'
               <=> \A q \in op.steady : Cascades(q) \subseteq op.steady
      BY <1>4 DEF Mine, Cascades
    <2> QED BY <1>1, <1>4, <1>7, <1>10, <2>1 DEF SteadyRead
  <1>13. AloneReads' BY <1>4 DEF AloneReads
  <1> QED BY <1>6, <1>8, <1>9, <1>11, <1>12, <1>13 DEF AccountInv

LEMMA CommitInsertKeeps ==
  ASSUME AccountInv, NEW v \in Writers, CommitInsert(v)
  PROVE  AccountInv'
  <1> DEFINE r == writer[v]
  <1>1. AccountTypeOK /\ KeysHold /\ OthersApart /\ UserKept /\ SteadyRead /\ AloneReads
    BY DEF AccountInv
  <1>2. /\ r # NoRow /\ rows' = rows \cup {r} /\ op' = op
        /\ writer' = [writer EXCEPT ![v] = NoRow]
    BY DEF CommitInsert
  <1>3. rows \in SUBSET Rows /\ writer \in [Writers -> Rows \cup {NoRow}]
    BY <1>1 DEF AccountTypeOK
  <1>4. /\ r \in Rows /\ \A w \in Writers \ {v} : writer'[w] = writer[w]
        /\ writer'[v] = NoRow /\ writer' \in [Writers -> Rows \cup {NoRow}]
    BY <1>2, <1>3
  <1>5. AccountTypeOK' BY <1>1, <1>2, <1>3, <1>4 DEF AccountTypeOK, OpTypeOK
  <1>6. There' = There \cup ({r} \ op.gone) /\ There \subseteq rows BY <1>2 DEF There
  <1>7. RefersTo[r] \subseteq There /\ Cascades(r) \subseteq There
    BY <1>1, <1>2, <1>4, Schema DEF KeysHold
  <1> HIDE DEF r
  <1>8. KeysHold'
    <2>1. \A q \in rows' : Cascades(q) \subseteq rows'
      BY <1>1, <1>2, <1>6, <1>7 DEF KeysHold
    <2>2. \A q \in There' : Cascades(q) \subseteq There' BY <1>1, <1>6, <1>7 DEF KeysHold
    <2>3. \A w \in Writers : writer'[w] # NoRow => RefersTo[writer'[w]] \subseteq There'
      BY <1>1, <1>4, <1>6 DEF KeysHold
    <2>4. (\A q \in rows : Cascades(q) \subseteq rows)' BY <2>1 DEF Cascades
    <2>5. (\A q \in There : Cascades(q) \subseteq There)' BY <2>2 DEF Cascades
    <2> QED BY <2>3, <2>4, <2>5 DEF KeysHold
  <1>9. OthersApart' BY <1>1, <1>2, <1>6 DEF OthersApart, Others, OfTable, Mine
  <1>10. /\ Size(op.command)' = Size(op.command) /\ Program(op.command)' = Program(op.command)
         /\ \A n \in 1..Size(op.command) : Passed(n)' <=> Passed(n)
         /\ Reading' <=> Reading
    BY <1>1, <1>2, BesideIt
  <1>11. UserKept'
    <2>1. r \notin OfTable(Mine(Rows), "user") BY <1>1, <1>2 DEF UserKept, r
    <2>2. /\ OfTable(Mine(Rows), "user")' = OfTable(Mine(Rows), "user")
          /\ OfTable(Mine(rows), "user") \subseteq OfTable(Mine(rows), "user")'
          /\ OfTable(Mine(There), "user")' = OfTable(Mine(There), "user")
      BY <1>2, <1>4, <1>6, <2>1 DEF OfTable, Mine
    <2> QED BY <1>1, <1>2, <1>4, <1>10, <2>2 DEF UserKept, Deletes
  <1>12. SteadyRead'
    <2>1. /\ Mine(op.steady)' = Mine(op.steady)
          /\ (\A q \in op.steady : Cascades(q) \subseteq op.steady)'
               <=> \A q \in op.steady : Cascades(q) \subseteq op.steady
      BY <1>2 DEF Mine, Cascades
    <2> QED BY <1>1, <1>2, <1>6, <1>10, <2>1 DEF SteadyRead
  <1>13. AloneReads' BY <1>1, <1>2 DEF AloneReads, r
  <1> QED BY <1>5, <1>8, <1>9, <1>11, <1>12, <1>13 DEF AccountInv

LEMMA RemoveRowKeeps ==
  ASSUME AccountInv, NEW r \in Rows, RemoveRow(r)
  PROVE  AccountInv'
  <1>1. AccountTypeOK /\ KeysHold /\ OthersApart /\ UserKept /\ SteadyRead
    BY DEF AccountInv
  <1>2. /\ r \in There /\ OwnerOf[r] = Account
        /\ TableOf[r] \in {"session", "recommendation", "watchlist"}
        /\ ~Locked({r}) /\ Changed /\ rows' = rows \ {r} /\ writer' = writer
        /\ op' = [op EXCEPT !.alone = FALSE, !.steady = @ \ {r}]
    BY DEF RemoveRow, There
  <1>3. OpTypeOK /\ rows \in SUBSET Rows BY <1>1 DEF AccountTypeOK
  <1>4. /\ op'.pc = op.pc /\ op'.command = op.command /\ op'.gone = op.gone
        /\ op'.ids = op.ids /\ op'.counts = op.counts /\ op'.exported = op.exported
        /\ op'.steady = op.steady \ {r} /\ op'.alone = FALSE /\ OpTypeOK'
    BY <1>2, <1>3 DEF OpTypeOK
  <1>5. AccountTypeOK' BY <1>1, <1>2, <1>3, <1>4 DEF AccountTypeOK
  <1>6. There' = There \ {r} /\ There \subseteq rows BY <1>2, <1>4 DEF There
  <1>7. \A q \in Rows : r \notin Cascades(q)
    <2>1. \A q \in Rows : \A p \in Cascades(q) : TableOf[p] \in {"request", "user"}
      BY Schema
    <2> QED BY <1>2, <2>1
  <1>8. op.steady \subseteq Rows BY <1>3 DEF OpTypeOK
  <1>9. KeysHold'
    <2>1. \A q \in rows' : Cascades(q) \subseteq rows'
      BY <1>1, <1>2, <1>3, <1>7 DEF KeysHold
    <2>2. \A q \in There' : Cascades(q) \subseteq There'
      BY <1>1, <1>3, <1>6, <1>7 DEF KeysHold
    <2>3. \A w \in Writers : writer'[w] # NoRow => RefersTo[writer'[w]] \subseteq There'
      BY <1>1, <1>2, <1>6 DEF KeysHold, Locked
    <2>4. (\A q \in rows : Cascades(q) \subseteq rows)' BY <2>1 DEF Cascades
    <2>5. (\A q \in There : Cascades(q) \subseteq There)' BY <2>2 DEF Cascades
    <2> QED BY <2>3, <2>4, <2>5 DEF KeysHold
  <1>10. OthersApart'
    <2>1. /\ Mine(Rows)' = Mine(Rows)
          /\ OfTable(Mine(Rows), "request")' = OfTable(Mine(Rows), "request")
      BY DEF Mine, OfTable
    <2>2. r \notin Others BY <1>2 DEF Others
    <2> QED BY <1>1, <1>4, <1>6, <2>1, <2>2 DEF OthersApart, Others
  <1>11. /\ Size(op.command)' = Size(op.command) /\ Program(op.command)' = Program(op.command)
         /\ \A n \in 1..Size(op.command) : Passed(n)' <=> Passed(n)
         /\ Reading' <=> Reading
    BY <1>1, <1>4, BesideIt
  <1>12. UserKept'
    <2>1. TableOf[r] # "user" BY <1>2
    <2>2. /\ OfTable(Mine(Rows), "user")' = OfTable(Mine(Rows), "user")
          /\ OfTable(Mine(rows), "user")' = OfTable(Mine(rows), "user")
          /\ OfTable(Mine(There), "user")' = OfTable(Mine(There), "user")
      BY <1>2, <1>6, <2>1 DEF OfTable, Mine
    <2> QED BY <1>1, <1>2, <1>4, <1>11, <2>2 DEF UserKept, Deletes
  <1>13. SteadyRead'
    <2> SUFFICES ASSUME op.pc # 0 PROVE SteadyRead'
      BY <1>4 DEF SteadyRead
    <2>1. (\A q \in op.steady : Cascades(q) \subseteq op.steady)'
      BY <1>1, <1>4, <1>7, <1>8 DEF SteadyRead, Cascades
    <2>2. (Reading /\ op.pc =< Size(op.command) + 1 => op.steady \subseteq There)'
      BY <1>1, <1>4, <1>6, <1>11 DEF SteadyRead
    <2>3. \A u : OfTable(Mine(op'.steady), u) \subseteq OfTable(Mine(op.steady), u)
      BY <1>4 DEF OfTable, Mine
    <2>4. \A n \in 1..Size(op.command) : Passed(n) =>
            /\ ReadsIds(Program(op.command)[n]) =>
                  OfTable(Mine(op.steady), "request") \subseteq op.ids
            /\ Program(op.command)[n][1] = "export" =>
                  OfTable(Mine(op.steady), Program(op.command)[n][2]) \subseteq op.exported
      BY <1>1 DEF SteadyRead
    <2>5. \A n \in 1..Size(op.command) : Passed(n)' =>
            /\ ReadsIds(Program(op.command)[n]) =>
                  OfTable(Mine(op'.steady), "request") \subseteq op'.ids
            /\ Program(op.command)[n][1] = "export" =>
                  OfTable(Mine(op'.steady), Program(op.command)[n][2]) \subseteq op'.exported
      <3>1. \A u : OfTable(Mine(op.steady), u) \subseteq op.exported
              => OfTable(Mine(op'.steady), u) \subseteq op'.exported
        BY <1>4, <2>3
      <3>2. OfTable(Mine(op.steady), "request") \subseteq op.ids
              => OfTable(Mine(op'.steady), "request") \subseteq op'.ids
        BY <1>4, <2>3
      <3> QED BY <1>11, <2>4, <3>1, <3>2
    <2> QED BY <1>4, <1>11, <2>1, <2>2, <2>5 DEF SteadyRead
  <1>14. AloneReads' BY <1>4 DEF AloneReads
  <1> QED BY <1>5, <1>9, <1>10, <1>12, <1>13, <1>14 DEF AccountInv

LEMMA AccountInitially == AccountInit => AccountInv
  <1> SUFFICES ASSUME AccountInit PROVE AccountInv OBVIOUS
  <1>1. PICK S \in SUBSET (Rows \ Others) :
           rows = S \cup Others /\ \A r \in S : RefersTo[r] \subseteq S
    BY DEF AccountInit
  <1>2. op = NoOp /\ writer = [w \in Writers |-> NoRow] BY DEF AccountInit
  <1>3. /\ op.pc = 0 /\ op.gone = {} /\ op.ids = {} /\ op.exported = {}
        /\ op.command = "none"
    BY <1>2 DEF NoOp
  <1>4. rows \in SUBSET Rows /\ There = rows BY <1>1, <1>3 DEF Others, There
  <1>5. OpTypeOK
    <2>1. <<>> \in Seq(CountedRows) OBVIOUS
    <2> QED BY <1>2, <2>1 DEF OpTypeOK, NoOp
  <1>6. AccountTypeOK BY <1>2, <1>3, <1>4, <1>5 DEF AccountTypeOK
  <1>7. KeysHold
    <2>1. ASSUME NEW r \in Others PROVE Cascades(r) \subseteq Others
      <3>1. r \in Rows /\ OwnerOf[r] # Account BY DEF Others
      <3>2. \A p \in Cascades(r) : p \in Rows /\ OwnerOf[p] = OwnerOf[r] BY <3>1, Schema
      <3> QED BY <3>1, <3>2 DEF Others
    <2>2. ASSUME NEW r \in S PROVE Cascades(r) \subseteq S
      BY <1>1 DEF Cascades
    <2>3. \A r \in rows : Cascades(r) \subseteq rows BY <1>1, <2>1, <2>2
    <2> QED BY <1>2, <1>4, <2>3 DEF KeysHold
  <1>8. OthersApart BY <1>1, <1>3, <1>4 DEF OthersApart
  <1>9. UserKept
    <2>1. Size(op.command) \in Nat BY <1>3, Sizes
    <2>2. op.pc \notin 1..(Size(op.command) + 1) /\ op.pc # Size(op.command) + 1
      BY <1>3, <2>1
    <2> QED BY <1>2, <2>2 DEF UserKept
  <1>10. SteadyRead /\ AloneReads BY <1>3 DEF SteadyRead, AloneReads
  <1> QED BY <1>6, <1>7, <1>8, <1>9, <1>10 DEF AccountInv

LEMMA AccountStep == AccountInv /\ [AccountNext]_accountVars => AccountInv'
  <1> SUFFICES ASSUME AccountInv, [AccountNext]_accountVars PROVE AccountInv' OBVIOUS
  <1>1. ASSUME NEW command \in Commands, Start(command) PROVE AccountInv'
    BY <1>1, StartKeeps
  <1>2. CASE Query BY <1>2, QueryKeeps
  <1>3. CASE DeleteRows BY <1>3, DeleteKeeps
  <1>4. CASE Finish BY <1>4, FinishKeeps
  <1>5. ASSUME NEW w \in Writers, NEW r \in Rows, Insert(w, r) PROVE AccountInv'
    BY <1>5, InsertKeeps
  <1>6. ASSUME NEW w \in Writers, CommitInsert(w) PROVE AccountInv'
    BY <1>6, CommitInsertKeeps
  <1>7. ASSUME NEW r \in Rows, RemoveRow(r) PROVE AccountInv' BY <1>7, RemoveRowKeeps
  <1>8. CASE UNCHANGED accountVars
    <2>1. rows' = rows /\ op' = op /\ writer' = writer BY <1>8 DEF accountVars
    <2>2. AccountTypeOK' /\ KeysHold' /\ OthersApart'
      BY <2>1 DEF AccountInv, AccountTypeOK, OpTypeOK, KeysHold, OthersApart, There, Cascades,
                  Others, OfTable, Mine
    <2>3. UserKept' BY <2>1 DEF AccountInv, UserKept, Size, Deletes, There, OfTable, Mine
    <2>4. SteadyRead' /\ AloneReads'
      BY <2>1 DEF AccountInv, SteadyRead, AloneReads, Size, Reading, Passed, There, OfTable,
                  Mine, Cascades
    <2> QED BY <2>2, <2>3, <2>4 DEF AccountInv
  <1> QED BY <1>1, <1>2, <1>3, <1>4, <1>5, <1>6, <1>7, <1>8 DEF AccountNext, Commands

LEMMA AccountAlways == AccountSpec => []AccountInv
  BY AccountInitially, AccountStep, PTL DEF AccountSpec

-----------------------------------------------------------------------------
(* What an operator reads and does. *)

LEMMA ReadingIsTrue == AccountInv => ReportsTrue
  <1> SUFFICES ASSUME AccountInv, Reported PROVE ReportsTrue
    BY DEF ReportsTrue, ExportComplete, CountsAreTrue
  <1>1. AccountTypeOK /\ OthersApart /\ SteadyRead /\ AloneReads BY DEF AccountInv
  <1>2. op.pc > 0 /\ op.pc = Size(op.command) + 2 BY DEF Reported, Size
  <1>3. op.pc # 0 /\ op.command \in Commands /\ Size(op.command) \in Nat
    BY <1>1, <1>2, Sizes DEF AccountTypeOK, OpTypeOK
  <1>4. \A n \in 1..Size(op.command) : Passed(n) BY <1>2, <1>3 DEF Passed
  <1>5. ExportComplete
    <2> SUFFICES ASSUME op.command \in {"export", "smoke"}
                 PROVE  Mine(op.steady) \subseteq op.exported /\ op.exported = Mine(op.exported)
      BY DEF ExportComplete
    <2>1. op.exported = Mine(op.exported) BY <1>1 DEF OthersApart, Mine
    <2>2. ASSUME NEW r \in Mine(op.steady) PROVE r \in op.exported
      <3>1. TableOf[r] \in Tables
        BY <1>1, Schema DEF Mine, AccountTypeOK, OpTypeOK
      <3>2. PICK n \in 1..Size(op.command) :
               Program(op.command)[n] = <<"export", TableOf[r]>>
        BY <1>3, <3>1, ProgramShape DEF Shaped, Size
      <3>3. Program(op.command)[n][1] = "export" /\ Program(op.command)[n][2] = TableOf[r]
        BY <3>2
      <3>4. OfTable(Mine(op.steady), Program(op.command)[n][2]) \subseteq op.exported
        BY <1>1, <1>3, <1>4, <3>3 DEF SteadyRead
      <3> QED BY <3>3, <3>4 DEF OfTable
    <2> QED BY <2>1, <2>2
  <1>6. CountsAreTrue BY <1>1, <1>3 DEF CountsAreTrue, AloneReads, OfTable
  <1> QED BY <1>5, <1>6 DEF ReportsTrue

(* Reports are true: an export has every row the account had all the time   *)
(* and nobody else's, and the counts of a command nobody writes beside are  *)
(* those of the account's rows, whatever commands ran before it.            *)
THEOREM ReportsAreTrue == AccountSpec => []ReportsTrue
  BY AccountAlways, ReadingIsTrue, PTL

LEMMA PcMoves ==
  ASSUME AccountInv, [AccountNext]_accountVars, op.pc > 0
  PROVE  \/ DeleteRows \/ op'.pc = op.pc
         \/ op'.pc = op.pc + 1 /\ (op.pc \in 1..Size(op.command) \/ Finish)
  <1>1. AccountTypeOK /\ OpTypeOK /\ op.pc \in Nat BY DEF AccountInv, AccountTypeOK, OpTypeOK
  <1>2. ASSUME NEW command, Start(command) PROVE FALSE BY <1>1, <1>2 DEF Start
  <1>3. CASE Query BY <1>1, <1>3, QueryEffect
  <1>4. CASE Finish
    <2>1. op' = [[op EXCEPT !.pc = @ + 1] EXCEPT !.gone = {}] BY <1>4 DEF Finish, Ran
    <2> QED BY <1>1, <1>4, <2>1 DEF OpTypeOK
  <1>5. ASSUME NEW w \in Writers, NEW r \in Rows, Insert(w, r) PROVE op'.pc = op.pc
    BY <1>1, <1>5 DEF Insert, OpTypeOK
  <1>6. ASSUME NEW w \in Writers, CommitInsert(w) PROVE op'.pc = op.pc
    BY <1>6 DEF CommitInsert
  <1>7. ASSUME NEW r \in Rows, RemoveRow(r) PROVE op'.pc = op.pc
    BY <1>1, <1>7 DEF RemoveRow, OpTypeOK
  <1>8. CASE UNCHANGED accountVars BY <1>8 DEF accountVars
  <1> QED BY <1>2, <1>3, <1>4, <1>5, <1>6, <1>7, <1>8 DEF AccountNext

LEMMA LoneStep ==
  AccountInv /\ [AccountNext]_accountVars =>
    [op.alone /\ op.pc > 0 /\ op'.pc = 0 => Reported]_accountVars
  <1> SUFFICES ASSUME AccountInv, [AccountNext]_accountVars, op.alone, op.pc > 0, op'.pc = 0
               PROVE  FALSE
    OBVIOUS
  <1>1. op.pc \in Nat BY DEF AccountInv, AccountTypeOK, OpTypeOK
  <1> QED BY <1>1, PcMoves, AloneNotRefused

LEMMA ErasedStep ==
  AccountInv /\ [AccountNext]_accountVars =>
    [op.pc > 0 /\ op.pc = Len(Program(op.command)) + 1 /\ op'.pc > op.pc /\ Deletes
        => Mine(rows') = {} /\ Others \subseteq rows']_accountVars
  <1> SUFFICES ASSUME AccountInv, [AccountNext]_accountVars, op.pc > 0,
                      op.pc = Size(op.command) + 1, op'.pc > op.pc, Deletes
               PROVE  Mine(rows') = {} /\ Others \subseteq rows'
    BY DEF Size
  <1>1. AccountTypeOK /\ KeysHold /\ OthersApart /\ UserKept BY DEF AccountInv
  <1>2. op.pc \in Nat /\ Size(op.command) \in Nat
    BY <1>1, Sizes DEF AccountTypeOK, OpTypeOK
  <1>3. op.pc \notin 1..Size(op.command) /\ op'.pc # op.pc BY <1>2
  <1>4. Finish BY <1>3, PcMoves DEF DeleteRows, Size
  <1>5. rows' = There BY <1>4 DEF Finish, There
  <1>6. There \in SUBSET Rows BY <1>1 DEF There, AccountTypeOK
  <1>7. OfTable(Mine(There), "user") = {} BY <1>1 DEF UserKept
  <1>8. Mine(There) = {} BY <1>1, <1>6, <1>7, NoUserNoRow DEF KeysHold
  <1> QED BY <1>1, <1>5, <1>8 DEF OthersApart

(* A deletion that nobody writes beside is not refused by a foreign key,    *)
(* and one that is committed leaves nothing of the account, whatever was    *)
(* inserted or removed between its statements, and everything of others.    *)
THEOREM DeletionsComplete == AccountSpec => DeletionComplete
  <1>1. AccountSpec => LoneDeletionSucceeds
    BY AccountAlways, LoneStep, PTL DEF AccountSpec, LoneDeletionSucceeds
  <1>2. AccountSpec => ErasedMeansGone
    BY AccountAlways, ErasedStep, PTL DEF AccountSpec, ErasedMeansGone
  <1> QED BY <1>1, <1>2 DEF DeletionComplete

-----------------------------------------------------------------------------
(* FeedConfig: applies nobody interferes with *)

StoreRow == [name : {f.name : f \in Files}, columns : {f.store : f \in Files}]

ConfigRow ==
  [store : Nat \ {0}, feed : {f.feed : f \in Files}, columns : {f.source : f \in Files}]

Apply ==
  [pc : {"idle", "store", "config", "write", "commit"}, file : Files \cup {None},
   store : Nat, config : Nat, differs : BOOLEAN,
   locks : SUBSET ({"store", "config"} \X (Nat \cup {f.name : f \in Files})),
   alone : BOOLEAN]

ConfigTypeOK ==
  /\ stores \in Seq(StoreRow) /\ configs \in Seq(ConfigRow)
  /\ apply \in [Operators -> Apply]

(* A store's name is unique, and a config has a store.                      *)
RowsSound ==
  /\ \A m, n \in DOMAIN stores : stores[m].name = stores[n].name => m = n
  /\ \A k \in DOMAIN configs : configs[k].store \in DOMAIN stores

(* What an apply holds nobody else does; what it inserts is not there yet,  *)
(* and the config it will update is one of its store.                       *)
Past(t) == t.pc \in {"config", "write", "commit"}

Sound(t) ==
  /\ t.pc # "idle" => t.file \in Files /\ t.store \in 0..Len(stores)
  /\ t.pc = "idle" => t.file = None
  /\ ~Past(t) => t.locks = {}
  /\ t.pc = "store" /\ t.store = 0 => t.differs
  /\ Past(t) /\ t.store = 0 =>
        /\ <<"store", t.file.name>> \in t.locks
        /\ \A n \in DOMAIN stores : stores[n].name # t.file.name
  /\ t.pc \in {"write", "commit"} /\ t.config # 0 =>
        /\ t.config \in DOMAIN configs /\ t.store # 0
        /\ configs[t.config].store = t.store

AppliesSound == \A o \in Operators : Sound(apply[o])

LocksApart ==
  \A o, p \in Operators : o # p => apply[o].locks \cap apply[p].locks = {}

(* Nobody else is at the store of an apply that is alone.                   *)
Apart(o) ==
  \A p \in Operators \ {o} : apply[p].pc # "idle" =>
    /\ apply[p].file.name # apply[o].file.name
    /\ apply[o].store # 0 => apply[p].store # apply[o].store

(* What it has found is what there is, and what it did not find different   *)
(* is as the file has it, or else it holds the row.                         *)
StoreFound(t) ==
  /\ t.store = 0 => \A n \in DOMAIN stores : stores[n].name # t.file.name
  /\ t.store # 0 =>
       /\ stores[t.store].name = t.file.name
       /\ \/ stores[t.store].columns = t.file.store
          \/ t.pc = "store" /\ t.differs
          \/ t.pc # "store" /\ <<"store", t.store>> \in t.locks

ConfigFound(t) ==
  t.pc \in {"write", "commit"} =>
    /\ t.config = 0 => ConfigsOf(t.store, t.file.feed) = {}
    /\ t.config # 0 =>
         /\ ConfigsOf(t.store, t.file.feed) = {t.config}
         /\ \/ configs[t.config].columns = t.file.source
            \/ t.pc = "write" /\ t.differs
            \/ t.pc = "commit" /\ <<"config", t.config>> \in t.locks

AloneFinds ==
  \A o \in Operators :
    apply[o].pc # "idle" /\ apply[o].alone =>
      Apart(o) /\ StoreFound(apply[o]) /\ ConfigFound(apply[o])

ConfigInv == ConfigTypeOK /\ RowsSound /\ AppliesSound /\ LocksApart /\ AloneFinds

-----------------------------------------------------------------------------
(* At first there are no rows and no applies.                               *)
LEMMA ConfigStarts == ConfigInit => ConfigInv
  <1> SUFFICES ASSUME ConfigInit PROVE ConfigInv OBVIOUS
  <1> USE DEF ConfigInit
  <1>1. NoApply \in Apply BY DEF NoApply, Apply
  <1>2. ConfigTypeOK BY <1>1 DEF ConfigTypeOK
  <1>3. \A o \in Operators : apply[o] = NoApply OBVIOUS
  <1> QED BY <1>2, <1>3 DEF ConfigInv, RowsSound, AppliesSound, Sound, Past, LocksApart,
            AloneFinds, NoApply

(* The store of a name is the only one, if there is one.                    *)
LEMMA NamedIsOnly ==
  ASSUME ConfigTypeOK, RowsSound, NEW name
  PROVE  /\ StoreNamed(name) \in 0..Len(stores)
         /\ StoreNamed(name) # 0 => stores[StoreNamed(name)].name = name
         /\ StoreNamed(name) = 0 <=> \A n \in DOMAIN stores : stores[n].name # name
         /\ \A n \in DOMAIN stores : stores[n].name = name => StoreNamed(name) = n
  <1>1. Len(stores) \in Nat /\ DOMAIN stores = 1..Len(stores) BY DEF ConfigTypeOK
  <1> QED BY <1>1 DEF StoreNamed, RowsSound

(* A step of one apply that commits nothing.                                *)
LEMMA OwnStep ==
  ASSUME ConfigInv, NEW o \in Operators, NEW r \in Apply,
         apply' = [apply EXCEPT ![o] = r], stores' = stores, configs' = configs,
         \/ r = NoApply
         \/ /\ r.file = apply[o].file /\ r.store = apply[o].store
            /\ r.alone => apply[o].alone
            /\ apply[o].pc # "idle" /\ Sound(r)
            /\ r.alone => StoreFound(r) /\ ConfigFound(r)
            /\ \A p \in Operators \ {o} : r.locks \cap apply[p].locks = {}
  PROVE  ConfigInv'
  <1> USE DEF ConfigInv
  <1>1. ConfigTypeOK' BY DEF ConfigTypeOK
  <1>2. apply'[o] = r /\ \A p \in Operators \ {o} : apply'[p] = apply[p]
    BY DEF ConfigTypeOK
  <1>3. RowsSound' BY DEF RowsSound
  <1>4. Sound(r)
    BY DEF Sound, Past, NoApply
  <1>5. AppliesSound'
    <2> SUFFICES ASSUME NEW p \in Operators PROVE Sound(apply[p])' BY DEF AppliesSound
    <2>1. CASE p = o BY <2>1, <1>2, <1>4 DEF Sound, Past
    <2>2. CASE p # o BY <2>2, <1>2 DEF AppliesSound, Sound, Past
    <2> QED BY <2>1, <2>2
  <1>6. LocksApart' BY <1>2 DEF LocksApart, NoApply
  <1>7. AloneFinds'
    <2> SUFFICES ASSUME NEW p \in Operators, apply'[p].pc # "idle", apply'[p].alone
                 PROVE  Apart(p)' /\ StoreFound(apply[p])' /\ ConfigFound(apply[p])'
      BY DEF AloneFinds
    <2>1. CASE p = o
      <3>1. r # NoApply BY <1>2, <2>1 DEF NoApply
      <3>2. Apart(o) BY <1>2, <2>1, <3>1 DEF AloneFinds
      <3> QED BY <1>2, <2>1, <3>1, <3>2 DEF Apart, StoreFound, ConfigFound, ConfigsOf
    <2>2. CASE p # o
      <3>1. Apart(p) /\ StoreFound(apply[p]) /\ ConfigFound(apply[p])
        BY <1>2, <2>2 DEF AloneFinds
      <3>2. Apart(p)' BY <1>2, <2>2, <3>1 DEF Apart, NoApply
      <3> QED BY <1>2, <2>2, <3>1, <3>2 DEF StoreFound, ConfigFound, ConfigsOf
    <2> QED BY <2>1, <2>2
  <1> QED BY <1>1, <1>3, <1>5, <1>6, <1>7

(* Who begins at a store others are at is not alone, nor are they.          *)
LEMMA StartApplyKeeps ==
  ASSUME ConfigInv, NEW o \in Operators, NEW f \in Files, StartApply(o, f)
  PROVE  ConfigInv'
  <1> DEFINE n == StoreNamed(f.name)
             others == {p \in Operators \ {o} : /\ Open(p)
                                               /\ \/ apply[p].file.name = f.name
                                                  \/ n # 0 /\ apply[p].store = n}
             new == [NoApply EXCEPT !.pc = "store", !.file = f, !.store = n,
                                    !.differs = ~Stored(f), !.alone = others = {}]
  <1> USE DEF ConfigInv
  <1>1. stores' = stores /\ configs' = configs /\ ~Open(o) BY DEF StartApply
  <1>2. apply' = [p \in Operators |->
                    IF p = o THEN new ELSE [apply[p] EXCEPT !.alone = @ /\ p \notin others]]
    BY DEF StartApply
  <1>3. /\ n \in 0..Len(stores)
        /\ n # 0 => stores[n].name = f.name
        /\ n = 0 => \A m \in DOMAIN stores : stores[m].name # f.name
    BY NamedIsOnly
  <1>4. Len(stores) \in Nat /\ DOMAIN stores = 1..Len(stores) BY DEF ConfigTypeOK
  <1>5. /\ new.pc = "store" /\ new.file = f /\ new.store = n /\ new.config = 0
        /\ new.differs = ~Stored(f) /\ new.locks = {} /\ new.alone = (others = {})
    BY DEF NoApply
  <1>6. new \in Apply /\ (~Stored(f) => new.differs)
    <2> DEFINE d == ~Stored(f)
               a == others = {}
    <2>1. d \in BOOLEAN /\ a \in BOOLEAN /\ n \in Nat BY <1>3, <1>4
    <2>2. new = [NoApply EXCEPT !.pc = "store", !.file = f, !.store = n, !.differs = d,
                               !.alone = a] OBVIOUS
    <2>3. d = ~Stored(f) OBVIOUS
    <2> HIDE DEF d, a, n, new
    <2> QED BY <2>1, <2>2, <2>3 DEF Apply, NoApply
  <1>7. ASSUME NEW p \in Operators \ {o}
        PROVE  /\ apply'[p] \in Apply
               /\ apply'[p].pc = apply[p].pc /\ apply'[p].file = apply[p].file
               /\ apply'[p].store = apply[p].store /\ apply'[p].config = apply[p].config
               /\ apply'[p].differs = apply[p].differs /\ apply'[p].locks = apply[p].locks
               /\ apply'[p].alone => apply[p].alone /\ p \notin others
    <2>1. apply[p] \in Apply BY DEF ConfigTypeOK
    <2>2. apply'[p] = [apply[p] EXCEPT !.alone = @ /\ p \notin others] BY <1>2
    <2> HIDE DEF others
    <2> QED BY <2>1, <2>2 DEF Apply
  <1>8. apply'[o] = new BY <1>2
  <1> HIDE DEF new, n
  <1>9. ConfigTypeOK'
    <2>1. DOMAIN apply' = Operators /\ \A p \in Operators : apply'[p] \in Apply
      BY <1>2, <1>6, <1>7, <1>8
    <2>2. apply' \in [Operators -> Apply]
      <3>1. apply' = [p \in Operators |-> apply'[p]] BY <1>2, <2>1
      <3> QED BY <2>1, <3>1
    <2> QED BY <1>1, <2>2 DEF ConfigTypeOK
  <1>10. RowsSound' BY <1>1 DEF RowsSound
  <1>11. ~Stored(f) \/ n # 0
    BY <1>3, <1>4 DEF Stored
  <1>12. AppliesSound'
    <2> SUFFICES ASSUME NEW p \in Operators PROVE Sound(apply[p])' BY DEF AppliesSound
    <2>1. CASE p = o 
      <3>1. new.pc = "store" /\ new.file = f /\ new.store = n /\ new.config = 0 /\ new.locks = {}
        BY <1>5
      <3>2. new.store = 0 => new.differs BY <3>1, <1>6, <1>11
      <3> QED BY <2>1, <3>1, <3>2, <1>1, <1>3, <1>8 DEF Sound, Past
    <2>2. CASE p # o BY <2>2, <1>1, <1>7 DEF AppliesSound, Sound, Past
    <2> QED BY <2>1, <2>2
  <1>13. LocksApart' BY <1>5, <1>7, <1>8 DEF LocksApart
  <1>14. AloneFinds'
    <2> SUFFICES ASSUME NEW p \in Operators, apply'[p].pc # "idle", apply'[p].alone
                 PROVE  Apart(p)' /\ StoreFound(apply[p])' /\ ConfigFound(apply[p])'
      BY DEF AloneFinds
    <2>1. CASE p = o
      <3>1. Apart(o)'
        <4> SUFFICES ASSUME NEW q \in Operators \ {o}, apply'[q].pc # "idle"
                     PROVE  /\ apply'[q].file.name # apply'[o].file.name
                            /\ apply'[o].store # 0 => apply'[q].store # apply'[o].store
          BY DEF Apart
        <4>1. q \notin others /\ Open(q) BY <2>1, <1>5, <1>7, <1>8 DEF Open
        <4> QED BY <4>1, <1>5, <1>7, <1>8
      <3>2. PICK r : r = new OBVIOUS
      <3>3. /\ r.pc = "store" /\ r.file = f /\ r.store = n /\ (~Stored(f) => r.differs)
            /\ apply'[p] = r
        BY <1>5, <1>6, <1>8, <2>1, <3>2
      <3>4. n # 0 => (stores[n].columns = f.store => Stored(f)) /\ (Stored(f) => stores[n].columns = f.store)
        <4> SUFFICES ASSUME n # 0
                     PROVE  (stores[n].columns = f.store => Stored(f)) /\ (Stored(f) => stores[n].columns = f.store)
          OBVIOUS
        <4>1. n \in DOMAIN stores /\ stores[n].name = f.name /\ stores[n] \in StoreRow
          BY <1>3, <1>4 DEF ConfigTypeOK
        <4>2. stores[n] = [name |-> stores[n].name, columns |-> stores[n].columns]
          BY <4>1 DEF StoreRow
        <4>3. \A m \in DOMAIN stores : stores[m].name = f.name => m = n
          BY <4>1 DEF RowsSound
        <4> QED BY <4>1, <4>2, <4>3 DEF Stored
      <3>5. StoreFound(r)'
        BY <1>1, <1>3, <3>3, <3>4 DEF StoreFound
      <3>6. ConfigFound(r)' BY <3>3 DEF ConfigFound
      <3> QED BY <2>1, <3>1, <3>3, <3>5, <3>6 DEF StoreFound, ConfigFound, ConfigsOf
    <2>2. CASE p # o
      <3>1. Apart(p) /\ StoreFound(apply[p]) /\ ConfigFound(apply[p]) /\ p \notin others
        BY <1>7, <2>2 DEF AloneFinds
      <3>2. Open(p) BY <1>7, <2>2 DEF Open
      <3>3. apply[p].file.name # f.name /\ (n # 0 => apply[p].store # n)
        BY <3>1, <3>2, <2>2
      <3>4. Apart(p)'
        <4> SUFFICES ASSUME NEW q \in Operators \ {p}, apply'[q].pc # "idle"
                     PROVE  /\ apply'[q].file.name # apply'[p].file.name
                            /\ apply'[p].store # 0 => apply'[q].store # apply'[p].store
          BY DEF Apart
        <4>1. CASE q = o BY <4>1, <2>2, <3>3, <1>5, <1>7, <1>8
        <4>2. CASE q # o BY <4>2, <2>2, <3>1, <1>7 DEF Apart
        <4> QED BY <4>1, <4>2
      <3> QED BY <1>1, <1>7, <2>2, <3>1, <3>4 DEF StoreFound, ConfigFound, ConfigsOf
    <2> QED BY <2>1, <2>2
  <1> QED BY <1>9, <1>10, <1>12, <1>13, <1>14

(* Steps before the commit: each either takes its apply back or is an       *)
(* OwnStep of it.                                                           *)
LEMMA WriteStoreKeeps ==
  ASSUME ConfigInv, NEW o \in Operators, WriteStore(o)
  PROVE  ConfigInv'
  <1> DEFINE t == apply[o]
             lock == <<"store", IF t.store = 0 THEN t.file.name ELSE t.store>>
             r == [t EXCEPT !.pc = "config", !.locks = IF t.differs THEN {lock} ELSE {}]
  <1>1. t \in Apply /\ Sound(t) BY DEF ConfigInv, ConfigTypeOK, AppliesSound
  <1>2. /\ t.pc = "store"
        /\ t.differs => ~Held(lock)
        /\ stores' = stores /\ configs' = configs
        /\ \/ apply' = [apply EXCEPT ![o] = NoApply]
           \/ /\ apply' = [apply EXCEPT ![o] = r]
              /\ t.store = 0 => StoreNamed(t.file.name) = 0
    BY <1>1 DEF WriteStore, Undone
  <1>3. NoApply \in Apply BY DEF NoApply, Apply
  <1>4. CASE apply' = [apply EXCEPT ![o] = NoApply] BY <1>2, <1>3, <1>4, OwnStep
  <1>5. CASE apply' = [apply EXCEPT ![o] = r] /\ (t.store = 0 => StoreNamed(t.file.name) = 0)
    <2>1. t.pc # "idle" /\ t.file \in Files /\ t.locks = {} /\ t.store \in Nat
          /\ (t.store = 0 => t.differs)
      BY <1>1, <1>2 DEF Sound, Past, Apply
    <2>2. PICK x : x = r OBVIOUS
    <2>3. /\ x.pc = "config" /\ x.file = t.file /\ x.store = t.store /\ x.config = t.config
          /\ x.alone = t.alone /\ x.locks = IF t.differs THEN {lock} ELSE {}
      BY <1>1, <2>2 DEF Apply
    <2>4. lock \in {"store", "config"} \X (Nat \cup {f.name : f \in Files}) BY <2>1
    <2>5. x \in Apply
      <3>1. (IF t.differs THEN {lock} ELSE {})
              \in SUBSET ({"store", "config"} \X (Nat \cup {f.name : f \in Files}))
        BY <2>4
      <3> HIDE DEF lock
      <3> QED BY <1>1, <2>2, <3>1 DEF Apply
    <2>6. Sound(x)
      BY <1>1, <1>5, <2>1, <2>3, NamedIsOnly DEF Sound, Past, ConfigInv
    <2>7. x.alone => StoreFound(x) /\ ConfigFound(x)
      <3> SUFFICES ASSUME x.alone PROVE StoreFound(x) /\ ConfigFound(x) OBVIOUS
      <3>1. StoreFound(t) BY <1>2, <2>3, <2>1 DEF ConfigInv, AloneFinds
      <3> QED BY <3>1, <1>2, <2>1, <2>3 DEF StoreFound, ConfigFound
    <2>8. \A p \in Operators \ {o} : x.locks \cap apply[p].locks = {}
      BY <1>2, <2>3 DEF Held
    <2> QED BY <1>2, <1>5, <2>1, <2>2, <2>3, <2>5, <2>6, <2>7, <2>8, OwnStep
  <1> QED BY <1>2, <1>4, <1>5

(* At most one config of a store and feed: it, or none, is what is found.   *)
LEMMA ReadConfigKeeps ==
  ASSUME ConfigInv, NEW o \in Operators, ReadConfig(o)
  PROVE  ConfigInv'
  <1> DEFINE t == apply[o]
             found == FoundConfigs(o)
             k == IF found = {} THEN 0 ELSE CHOOSE c \in found : TRUE
             d == \E c \in found : configs[c].columns # t.file.source
             r == [t EXCEPT !.pc = "write", !.config = k, !.differs = d]
  <1>1. t \in Apply /\ Sound(t) BY DEF ConfigInv, ConfigTypeOK, AppliesSound
  <1>2. /\ t.pc = "config" /\ stores' = stores /\ configs' = configs
        /\ \/ apply' = [apply EXCEPT ![o] = NoApply]
           \/ apply' = [apply EXCEPT ![o] = r] /\ ~(Cardinality(found) > 1)
    BY <1>1 DEF ReadConfig, Undone
  <1>3. NoApply \in Apply BY DEF NoApply, Apply
  <1>4. CASE apply' = [apply EXCEPT ![o] = NoApply] BY <1>2, <1>3, <1>4, OwnStep
  <1>5. CASE apply' = [apply EXCEPT ![o] = r] /\ ~(Cardinality(found) > 1)
    <2>1. t.pc # "idle" /\ t.file \in Files /\ t.store \in Nat
      BY <1>1, <1>2 DEF Sound, Past, Apply
    <2>2. /\ found \subseteq DOMAIN configs /\ DOMAIN configs = 1..Len(configs)
          /\ Len(configs) \in Nat /\ (t.store = 0 => found = {})
          /\ \A c \in found : configs[c].store = t.store
      BY DEF FoundConfigs, ConfigsOf, ConfigInv, ConfigTypeOK
    <2>3. found = IF k = 0 THEN {} ELSE {k}
      <3>0. IsFiniteSet(1..Len(configs)) BY <2>2, FS_Interval
      <3>1. IsFiniteSet(found) BY <3>0, <2>2, FS_Subset
      <3>2. \A a, b \in found : a = b
        <4> SUFFICES ASSUME NEW a \in found, NEW b \in found, a # b PROVE FALSE OBVIOUS
        <4>1. Cardinality({a, b}) = 2
            <5>1. IsFiniteSet({a}) /\ Cardinality({a}) = 1 BY FS_Singleton
            <5>2. {a, b} = {a} \cup {b} /\ b \notin {a} OBVIOUS
            <5> QED BY <5>1, <5>2, FS_AddElement
        <4>2. {a, b} \subseteq found OBVIOUS
        <4>3. Cardinality({a, b}) =< Cardinality(found) BY <3>1, <4>2, FS_Subset
        <4> QED BY <4>1, <4>3, <1>5, <3>1, FS_CardinalityType
      <3>3. 0 \notin found BY <2>2
      <3> HIDE DEF found
      <3> QED BY <3>2, <3>3
    <2>4. k \in Nat /\ (k # 0 => k \in found) /\ d \in BOOLEAN
      <3> HIDE DEF found
      <3> QED BY <2>2
    <2>5. k # 0 => (d <=> configs[k].columns # t.file.source)
      <3>1. found = IF k = 0 THEN {} ELSE {k} BY <2>3
      <3> HIDE DEF found, k
      <3> QED BY <3>1
    <2> HIDE DEF found, k, d
    <2>6. PICK x : x = r OBVIOUS
    <2>7. /\ x.pc = "write" /\ x.file = t.file /\ x.store = t.store /\ x.config = k
          /\ x.alone = t.alone /\ x.locks = t.locks /\ x.differs = d /\ x \in Apply
      BY <1>1, <2>4, <2>6 DEF Apply
    <2>8. Sound(x) BY <1>1, <1>2, <2>2, <2>4, <2>7 DEF Sound, Past
    <2>9. x.alone => StoreFound(x) /\ ConfigFound(x)
      <3> SUFFICES ASSUME x.alone PROVE StoreFound(x) /\ ConfigFound(x) OBVIOUS
      <3>1. StoreFound(t) BY <1>2, <2>7, <2>1 DEF ConfigInv, AloneFinds
      <3>2. ConfigsOf(t.store, t.file.feed) = found
        <4>1. CASE t.store = 0
          <5>1. ASSUME NEW c \in DOMAIN configs PROVE configs[c].store # 0
            <6>1. configs[c] \in ConfigRow BY <5>1 DEF ConfigInv, ConfigTypeOK
            <6> QED BY <6>1 DEF ConfigRow
          <5> QED BY <4>1, <5>1, <2>2 DEF ConfigsOf
        <4>2. CASE t.store # 0 BY <4>2 DEF found, FoundConfigs
        <4> QED BY <4>1, <4>2
      <3>3. ConfigFound(x) BY <2>3, <2>5, <2>7, <3>2 DEF ConfigFound
      <3> QED BY <3>1, <3>3, <1>2, <2>1, <2>7 DEF StoreFound
    <2>10. \A p \in Operators \ {o} : x.locks \cap apply[p].locks = {}
      BY <2>7 DEF ConfigInv, LocksApart
    <2> QED BY <1>2, <1>5, <2>1, <2>6, <2>7, <2>8, <2>9, <2>10, OwnStep
  <1> QED BY <1>2, <1>4, <1>5

(* A config that differs is locked before it is written.                    *)
LEMMA WriteConfigKeeps ==
  ASSUME ConfigInv, NEW o \in Operators, WriteConfig(o)
  PROVE  ConfigInv'
  <1> DEFINE t == apply[o]
             lock == <<"config", t.config>>
             l == IF t.differs THEN t.locks \cup {lock} ELSE t.locks
             r == [t EXCEPT !.pc = "commit", !.locks = l]
  <1>1. t \in Apply /\ Sound(t) BY DEF ConfigInv, ConfigTypeOK, AppliesSound
  <1>2. /\ t.pc = "write" /\ stores' = stores /\ configs' = configs
        /\ t.differs => ~Held(lock)
        /\ apply' = [apply EXCEPT ![o] = r]
    BY <1>1 DEF WriteConfig
  <1>3. t.pc # "idle" /\ t.file \in Files /\ t.store \in Nat
    BY <1>1, <1>2 DEF Sound, Past, Apply
  <1>4. l \in SUBSET ({"store", "config"} \X (Nat \cup {f.name : f \in Files}))
        /\ t.locks \subseteq l /\ (t.differs => lock \in l) /\ l \subseteq t.locks \cup {lock}
    BY <1>1 DEF Apply
  <1>5. \A p \in Operators \ {o} : l \cap apply[p].locks = {}
    BY <1>2 DEF Held, ConfigInv, LocksApart
  <1> HIDE DEF l
  <1>6. PICK x : x = r OBVIOUS
  <1>7. /\ x.pc = "commit" /\ x.file = t.file /\ x.store = t.store /\ x.config = t.config
        /\ x.alone = t.alone /\ x.locks = l /\ x \in Apply
    BY <1>1, <1>4, <1>6 DEF Apply
  <1>8. Sound(x) BY <1>1, <1>2, <1>4, <1>7 DEF Sound, Past
  <1>9. x.alone => StoreFound(x) /\ ConfigFound(x)
    <2> SUFFICES ASSUME x.alone PROVE StoreFound(x) /\ ConfigFound(x) OBVIOUS
    <2>1. StoreFound(t) /\ ConfigFound(t) BY <1>2, <1>7, <1>3 DEF ConfigInv, AloneFinds
    <2> QED BY <2>1, <1>2, <1>4, <1>7 DEF StoreFound, ConfigFound
  <1> QED BY <1>2, <1>3, <1>5, <1>6, <1>7, <1>8, <1>9, OwnStep

(* What a commit makes of the rows.                                         *)
LEMMA CommitRows ==
  ASSUME ConfigInv, NEW o \in Operators, Commit(o)
  PROVE  LET t == apply[o]
             f == t.file
             n == IF t.store = 0 THEN Len(stores) + 1 ELSE t.store
         IN  /\ t.pc = "commit" /\ t \in Apply /\ Sound(t) /\ f \in Files
             /\ stores' \in Seq(StoreRow) /\ configs' \in Seq(ConfigRow)
             /\ DOMAIN stores' = DOMAIN stores \cup {n} /\ n \in Nat \ {0}
             /\ t.store = 0 => n \notin DOMAIN stores
             /\ \A m \in DOMAIN stores : m # t.store => stores'[m] = stores[m]
             /\ t.store # 0 =>
                  /\ stores'[n].name = stores[n].name
                  /\ stores'[n].columns = IF <<"store", n>> \in t.locks THEN f.store
                                          ELSE stores[n].columns
             /\ t.store = 0 => stores'[n] = [name |-> f.name, columns |-> f.store]
             /\ \A k \in DOMAIN configs : k # t.config => k \in DOMAIN configs' /\ configs'[k] = configs[k]
             /\ t.config # 0 =>
                  /\ DOMAIN configs' = DOMAIN configs /\ t.config \in DOMAIN configs
                  /\ configs'[t.config].store = configs[t.config].store
                  /\ configs'[t.config].feed = configs[t.config].feed
                  /\ configs'[t.config].columns =
                        IF <<"config", t.config>> \in t.locks THEN f.source
                        ELSE configs[t.config].columns
             /\ t.config = 0 =>
                  /\ DOMAIN configs' = DOMAIN configs \cup {Len(configs) + 1}
                  /\ Len(configs) + 1 \notin DOMAIN configs
                  /\ configs'[Len(configs) + 1] = [store |-> n, feed |-> f.feed, columns |-> f.source]
             /\ apply' = [apply EXCEPT ![o] = NoApply]
  <1> DEFINE t == apply[o]
             f == t.file
             n == IF t.store = 0 THEN Len(stores) + 1 ELSE t.store
             newStore == [name |-> f.name, columns |-> f.store]
             newConfig == [store |-> n, feed |-> f.feed, columns |-> f.source]
  <1>1. t \in Apply /\ Sound(t) BY DEF ConfigInv, ConfigTypeOK, AppliesSound
  <1>2. t.pc = "commit" /\ apply' = [apply EXCEPT ![o] = NoApply] BY DEF Commit, Undone
  <1>3. f \in Files /\ t.store \in 0..Len(stores) /\ (t.config # 0 => t.config \in DOMAIN configs)
    BY <1>1, <1>2 DEF Sound
  <1>4. /\ stores \in Seq(StoreRow) /\ Len(stores) \in Nat /\ DOMAIN stores = 1..Len(stores)
        /\ configs \in Seq(ConfigRow) /\ Len(configs) \in Nat /\ DOMAIN configs = 1..Len(configs)
    BY DEF ConfigInv, ConfigTypeOK
  <1>5. n \in Nat \ {0} BY <1>3, <1>4
  <1>6. newStore \in StoreRow /\ newConfig \in ConfigRow BY <1>3, <1>5 DEF StoreRow, ConfigRow
  <1>7. /\ stores' \in Seq(StoreRow)
        /\ DOMAIN stores' = DOMAIN stores \cup {n}
        /\ t.store = 0 => n \notin DOMAIN stores
        /\ \A m \in DOMAIN stores : m # t.store => stores'[m] = stores[m]
        /\ t.store # 0 =>
             /\ stores'[n].name = stores[n].name
             /\ stores'[n].columns = IF <<"store", n>> \in t.locks THEN f.store
                                     ELSE stores[n].columns
        /\ t.store = 0 => stores'[n] = newStore
    <2>1. CASE t.store = 0
      <3>1. stores' = Append(stores, newStore) BY <2>1 DEF Commit
      <3>2. n = Len(stores) + 1 BY <2>1
      <3> HIDE DEF newStore, n
      <3> QED BY <2>1, <3>1, <3>2, <1>4, <1>6
    <2>2. CASE t.store # 0 /\ <<"store", n>> \in t.locks
      <3>1. stores' = [stores EXCEPT ![n].columns = f.store] BY <2>2 DEF Commit
      <3>2. n = t.store /\ n \in DOMAIN stores BY <2>2, <1>3, <1>4
      <3>3. stores[n] \in StoreRow /\ f.store \in {g.store : g \in Files} BY <3>2, <1>3, <1>4
      <3>4. [stores[n] EXCEPT !.columns = f.store] \in StoreRow
            /\ [stores[n] EXCEPT !.columns = f.store].name = stores[n].name
            /\ [stores[n] EXCEPT !.columns = f.store].columns = f.store
        BY <3>3 DEF StoreRow
      <3> HIDE DEF n
      <3> QED BY <2>2, <3>1, <3>2, <3>4, <1>4
    <2>3. CASE t.store # 0 /\ <<"store", n>> \notin t.locks
      <3>1. stores' = stores BY <2>3 DEF Commit
      <3> QED BY <2>3, <3>1, <1>3, <1>4
    <2> QED BY <2>1, <2>2, <2>3
  <1>8. /\ configs' \in Seq(ConfigRow)
        /\ \A k \in DOMAIN configs : k # t.config => k \in DOMAIN configs' /\ configs'[k] = configs[k]
        /\ t.config # 0 =>
             /\ DOMAIN configs' = DOMAIN configs /\ t.config \in DOMAIN configs
             /\ configs'[t.config].store = configs[t.config].store
             /\ configs'[t.config].feed = configs[t.config].feed
             /\ configs'[t.config].columns =
                   IF <<"config", t.config>> \in t.locks THEN f.source
                   ELSE configs[t.config].columns
        /\ t.config = 0 =>
             /\ DOMAIN configs' = DOMAIN configs \cup {Len(configs) + 1}
             /\ Len(configs) + 1 \notin DOMAIN configs
             /\ configs'[Len(configs) + 1] = newConfig
    <2>1. CASE t.config = 0
      <3>1. configs' = Append(configs, newConfig) BY <2>1 DEF Commit
      <3>2. 0 \notin DOMAIN configs BY <1>4
      <3> HIDE DEF newConfig
      <3> QED BY <2>1, <3>1, <3>2, <1>4, <1>6
    <2>2. CASE t.config # 0 /\ <<"config", t.config>> \in t.locks
      <3>1. configs' = [configs EXCEPT ![t.config].columns = f.source] BY <2>2 DEF Commit
      <3>2. t.config \in DOMAIN configs BY <2>2, <1>3
      <3>3. configs[t.config] \in ConfigRow /\ f.source \in {g.source : g \in Files}
        BY <3>2, <1>3, <1>4
      <3>4. PICK c : c = [configs[t.config] EXCEPT !.columns = f.source] OBVIOUS
      <3>5. c \in ConfigRow /\ c.columns = f.source
            /\ c.store = configs[t.config].store /\ c.feed = configs[t.config].feed
        BY <3>3, <3>4 DEF ConfigRow
      <3>6. configs' = [configs EXCEPT ![t.config] = c] BY <3>1, <3>4
      <3> QED BY <2>2, <3>2, <3>5, <3>6, <1>4
    <2>3. CASE t.config # 0 /\ <<"config", t.config>> \notin t.locks
      <3>1. configs' = configs BY <2>3 DEF Commit
      <3> QED BY <2>3, <3>1, <1>3, <1>4
    <2> QED BY <2>1, <2>2, <2>3
  <1> HIDE DEF newStore, newConfig, n
  <1>9. n = (IF t.store = 0 THEN Len(stores) + 1 ELSE t.store)
        /\ newStore = [name |-> f.name, columns |-> f.store]
        /\ newConfig = [store |-> n, feed |-> f.feed, columns |-> f.source]
    BY DEF n, newStore, newConfig
  <1> QED BY <1>1, <1>2, <1>3, <1>5, <1>7, <1>8, <1>9

(* A commit inserts what is not there and writes what it has locked.        *)
LEMMA CommitKeeps ==
  ASSUME ConfigInv, NEW o \in Operators, Commit(o)
  PROVE  ConfigInv'
  <1> DEFINE t == apply[o]
  <1>0. PICK n : n = IF t.store = 0 THEN Len(stores) + 1 ELSE t.store OBVIOUS
  <1>1. /\ t.pc = "commit" /\ t \in Apply /\ Sound(t) /\ t.file \in Files
        /\ stores' \in Seq(StoreRow) /\ configs' \in Seq(ConfigRow)
        /\ DOMAIN stores' = DOMAIN stores \cup {n} /\ n \in Nat \ {0}
        /\ t.store = 0 => n \notin DOMAIN stores
        /\ \A m \in DOMAIN stores : m # t.store => stores'[m] = stores[m]
        /\ t.store # 0 => n = t.store /\ stores'[n].name = stores[n].name
        /\ t.store = 0 => stores'[n] = [name |-> t.file.name, columns |-> t.file.store]
        /\ apply' = [apply EXCEPT ![o] = NoApply]
    BY <1>0, CommitRows
  <1>2. /\ \A k \in DOMAIN configs : k # t.config => k \in DOMAIN configs' /\ configs'[k] = configs[k]
        /\ t.config # 0 =>
             /\ DOMAIN configs' = DOMAIN configs /\ t.config \in DOMAIN configs
             /\ configs'[t.config].store = configs[t.config].store
             /\ configs'[t.config].feed = configs[t.config].feed
        /\ t.config = 0 =>
             /\ DOMAIN configs' = DOMAIN configs \cup {Len(configs) + 1}
             /\ Len(configs) + 1 \notin DOMAIN configs
             /\ configs'[Len(configs) + 1] = [store |-> n, feed |-> t.file.feed,
                                              columns |-> t.file.source]
    BY <1>0, CommitRows
  <1>3. /\ DOMAIN stores = 1..Len(stores) /\ Len(stores) \in Nat
        /\ DOMAIN stores' = 1..Len(stores') /\ Len(stores') \in Nat
        /\ DOMAIN configs = 1..Len(configs) /\ Len(configs) \in Nat
    <2>1. stores \in Seq(StoreRow) /\ configs \in Seq(ConfigRow) BY DEF ConfigInv, ConfigTypeOK
    <2>2. stores' \in Seq(StoreRow) BY <1>1
    <2> QED BY <2>1, <2>2
  <1>4. apply'[o] = NoApply /\ \A p \in Operators \ {o} : apply'[p] = apply[p]
    BY <1>1 DEF ConfigInv, ConfigTypeOK
  <1>5. ConfigTypeOK'
    <2>1. NoApply \in Apply BY DEF NoApply, Apply
    <2> QED BY <1>1, <2>1 DEF ConfigInv, ConfigTypeOK
  <1>6. \A m \in DOMAIN stores : m \in DOMAIN stores' /\ stores'[m].name = stores[m].name
    BY <1>1
  <1>7. /\ t.store # 0 => t.store \in DOMAIN stores
        /\ t.store = 0 => /\ \A m \in DOMAIN stores : stores[m].name # t.file.name
                          /\ <<"store", t.file.name>> \in t.locks
        /\ t.config # 0 => t.store # 0 /\ configs[t.config].store = t.store
    BY <1>1, <1>3 DEF Sound, Past
  <1>8. RowsSound'
    <2>1. \A m \in DOMAIN stores' : m \in DOMAIN stores \/ (t.store = 0 /\ m = n)
      BY <1>1, <1>7
    <2>2. t.store = 0 => stores'[n].name = t.file.name BY <1>1
    <2>3. \A a, b \in DOMAIN stores' : stores'[a].name = stores'[b].name => a = b
      BY <2>1, <2>2, <1>6, <1>7 DEF ConfigInv, RowsSound
    <2>4. ASSUME NEW k \in DOMAIN configs' PROVE configs'[k].store \in DOMAIN stores'
      <3>1. CASE k \in DOMAIN configs
        <4>1. configs'[k].store = configs[k].store BY <3>1, <1>2
        <4> QED BY <4>1, <3>1, <1>1 DEF ConfigInv, RowsSound
      <3>2. CASE k \notin DOMAIN configs
        <4>1. configs'[k].store = n BY <3>2, <1>2
        <4> QED BY <4>1, <1>1
      <3> QED BY <3>1, <3>2
    <2> QED BY <2>3, <2>4 DEF RowsSound
  <1>9. AppliesSound'
    <2> SUFFICES ASSUME NEW p \in Operators PROVE Sound(apply[p])' BY DEF AppliesSound
    <2>1. CASE p = o BY <2>1, <1>4 DEF Sound, Past, NoApply
    <2>2. CASE p # o
      <3>1. PICK u : u = apply[p] OBVIOUS
      <3>2. Sound(u) /\ apply'[p] = u BY <2>2, <3>1, <1>4 DEF ConfigInv, AppliesSound
      <3>3. u.pc # "idle" => u.file \in Files /\ u.store \in 0..Len(stores')
        BY <3>2, <1>1, <1>3 DEF Sound
      <3>4. ASSUME Past(u), u.store = 0
            PROVE  \A m \in DOMAIN stores' : stores'[m].name # u.file.name
        <4>1. <<"store", u.file.name>> \in u.locks
              /\ \A m \in DOMAIN stores : stores[m].name # u.file.name
          BY <3>2, <3>4 DEF Sound
        <4>2. t.store = 0 => t.file.name # u.file.name
          BY <4>1, <1>7, <2>2, <3>1 DEF ConfigInv, LocksApart
        <4>3. t.store = 0 => stores'[n].name = t.file.name BY <1>1
        <4> QED BY <4>1, <4>2, <4>3, <1>1, <1>6, <1>7
      <3>5. ASSUME u.pc \in {"write", "commit"}, u.config # 0
            PROVE  u.config \in DOMAIN configs' /\ u.store # 0 /\ configs'[u.config].store = u.store
        <4>1. u.config \in DOMAIN configs /\ u.store # 0 /\ configs[u.config].store = u.store
          BY <3>2, <3>5 DEF Sound
        <4> QED BY <4>1, <1>2
      <3>6. Sound(u)' BY <3>2, <3>3, <3>4, <3>5 DEF Sound, Past
      <3> QED BY <3>2, <3>6 DEF Sound, Past
    <2> QED BY <2>1, <2>2
  <1>10. LocksApart' BY <1>4 DEF ConfigInv, LocksApart, NoApply
  <1>11. AloneFinds'
    <2> SUFFICES ASSUME NEW p \in Operators, apply'[p].pc # "idle", apply'[p].alone
                 PROVE  Apart(p)' /\ StoreFound(apply[p])' /\ ConfigFound(apply[p])'
      BY DEF AloneFinds
    <2>1. p # o BY <1>4 DEF NoApply
    <2>2. PICK u : u = apply[p] OBVIOUS
    <2>3. apply'[p] = u /\ u.pc # "idle" /\ u.alone /\ Sound(u) /\ u \in Apply
      BY <1>4, <2>1, <2>2 DEF ConfigInv, AppliesSound, ConfigTypeOK
    <2>4. Apart(p) /\ StoreFound(u) /\ ConfigFound(u) BY <2>2, <2>3 DEF ConfigInv, AloneFinds
    <2>5. t.file.name # u.file.name /\ (u.store # 0 => t.store # u.store)
      BY <2>1, <2>2, <2>4, <1>1 DEF Apart
    <2>6. u.store \in 0..Len(stores) BY <2>3 DEF Sound
    <2>7. Apart(p)' BY <2>1, <2>2, <2>4, <1>4 DEF Apart, NoApply
    <2>8. StoreFound(u)'
      <3>1. u.store # 0 => u.store \in DOMAIN stores /\ stores'[u.store] = stores[u.store]
        BY <2>5, <2>6, <1>1, <1>3
      <3>2. u.store = 0 => \A m \in DOMAIN stores' : stores'[m].name # u.file.name
        <4> SUFFICES ASSUME u.store = 0, NEW m \in DOMAIN stores'
                     PROVE  stores'[m].name # u.file.name
          OBVIOUS
        <4>1. CASE m \in DOMAIN stores BY <4>1, <2>4, <1>6 DEF StoreFound
        <4>2. CASE m \notin DOMAIN stores
          <5>1. t.store = 0 /\ m = n BY <4>2, <1>1, <1>7
          <5>2. stores'[m].name = t.file.name BY <5>1, <1>1
          <5> QED BY <5>2, <2>5
        <4> QED BY <4>1, <4>2
      <3> QED BY <2>4, <3>1, <3>2 DEF StoreFound
    <2>9. ConfigFound(u)'
      <3> SUFFICES ASSUME u.pc \in {"write", "commit"}
                   PROVE  ConfigFound(u)'
        BY DEF ConfigFound
      <3>1. \A k \in DOMAIN configs :
               /\ k \in DOMAIN configs'
               /\ configs'[k].store = configs[k].store /\ configs'[k].feed = configs[k].feed
        BY <1>2
      <3>2. ConfigsOf(u.store, u.file.feed)' = ConfigsOf(u.store, u.file.feed)
        <4>1. \A k \in DOMAIN configs' \ DOMAIN configs : configs'[k].store = n
          BY <1>2
        <4>2. n # u.store
          BY <2>5, <2>6, <1>1, <1>3
        <4> QED BY <3>1, <4>1, <4>2 DEF ConfigsOf
      <3>3. u.config # 0 => u.config \in DOMAIN configs /\ u.store # 0
                            /\ configs[u.config].store = u.store
        BY <2>3 DEF Sound
      <3>4. u.config # 0 => u.config # t.config
        BY <3>3, <1>7, <2>5
      <3>5. u.config # 0 => configs'[u.config] = configs[u.config]
        BY <3>3, <3>4, <1>2
      <3> QED BY <2>4, <3>2, <3>5 DEF ConfigFound
    <2> QED BY <2>3, <2>7, <2>8, <2>9 DEF StoreFound, ConfigFound, ConfigsOf
  <1> QED BY <1>5, <1>8, <1>9, <1>10, <1>11 DEF ConfigInv

(* After a change of the admin no apply is alone any more; the names that   *)
(* are about to be inserted are left free.                                  *)
LEMMA AdminKeeps ==
  ASSUME ConfigInv, AdminChanges,
         stores' \in Seq(StoreRow), configs' \in Seq(ConfigRow), RowsSound',
         DOMAIN stores \subseteq DOMAIN stores',
         \A k \in DOMAIN configs : k \in DOMAIN configs' /\ configs'[k].store = configs[k].store,
         \A m \in DOMAIN stores' :
            \/ m \in DOMAIN stores /\ stores'[m].name = stores[m].name
            \/ ~Held(<<"store", stores'[m].name>>)
  PROVE  ConfigInv'
  <1>1. apply' = [o \in Operators |-> [apply[o] EXCEPT !.alone = ~Open(o)]] BY DEF AdminChanges
  <1>2. ASSUME NEW o \in Operators
        PROVE  /\ apply'[o] \in Apply
               /\ apply'[o].pc = apply[o].pc /\ apply'[o].file = apply[o].file
               /\ apply'[o].store = apply[o].store /\ apply'[o].config = apply[o].config
               /\ apply'[o].differs = apply[o].differs /\ apply'[o].locks = apply[o].locks
               /\ apply[o].pc # "idle" => ~apply'[o].alone
    <2>1. PICK b \in BOOLEAN : b = ~Open(o) OBVIOUS
    <2>2. apply[o] \in Apply BY DEF ConfigInv, ConfigTypeOK
    <2>3. apply'[o] = [apply[o] EXCEPT !.alone = b] BY <1>1, <2>1
    <2>4. apply[o].pc # "idle" => ~b BY <2>1 DEF Open
    <2> QED BY <2>2, <2>3, <2>4 DEF Apply
  <1>3. ConfigTypeOK'
    <2>1. apply' = [o \in Operators |-> apply'[o]] BY <1>1
    <2> QED BY <1>2, <2>1 DEF ConfigTypeOK
  <1>4. Len(stores) =< Len(stores') /\ Len(stores) \in Nat /\ Len(stores') \in Nat
    <2>1. /\ DOMAIN stores = 1..Len(stores) /\ DOMAIN stores' = 1..Len(stores')
          /\ Len(stores) \in Nat /\ Len(stores') \in Nat
      BY DEF ConfigInv, ConfigTypeOK
    <2>2. Len(stores) # 0 => Len(stores) \in 1..Len(stores') BY <2>1
    <2> QED BY <2>1, <2>2
  <1>5. AppliesSound'
    <2> SUFFICES ASSUME NEW o \in Operators PROVE Sound(apply[o])' BY DEF AppliesSound
    <2>1. PICK t : t = apply[o] OBVIOUS
    <2>2. Sound(t) BY <2>1 DEF ConfigInv, AppliesSound
    <2>3. t.pc # "idle" => t.file \in Files /\ t.store \in 0..Len(stores')
      BY <2>2, <1>4 DEF Sound
    <2>4. ASSUME Past(t), t.store = 0
          PROVE  \A m \in DOMAIN stores' : stores'[m].name # t.file.name
      <3>1. <<"store", t.file.name>> \in t.locks
            /\ \A m \in DOMAIN stores : stores[m].name # t.file.name
        BY <2>2, <2>4 DEF Sound
      <3>2. Held(<<"store", t.file.name>>) BY <3>1, <2>1 DEF Held
      <3> QED BY <3>1, <3>2
    <2>5. Sound(t)' BY <2>2, <2>3, <2>4 DEF Sound, Past
    <2> QED BY <2>1, <2>5, <1>2 DEF Sound, Past
  <1>6. LocksApart' BY <1>2 DEF ConfigInv, LocksApart
  <1>7. AloneFinds' BY <1>2 DEF AloneFinds
  <1> QED BY <1>3, <1>5, <1>6, <1>7 DEF ConfigInv

(* The admin leaves stores that are locked, and names, alone.               *)
LEMMA AdminStoresKeep ==
  ASSUME ConfigInv, NEW f \in Files,
         AdminCreatesStore(f) \/ \E n \in 1..MaxSteps : AdminPatchesStore(n, f)
  PROVE  ConfigInv'
  <1> DEFINE row == [name |-> f.name, columns |-> f.store]
  <1>1. row \in StoreRow BY DEF StoreRow
  <1>2. /\ stores \in Seq(StoreRow) /\ Len(stores) \in Nat /\ DOMAIN stores = 1..Len(stores)
        /\ configs \in Seq(ConfigRow) /\ configs' = configs /\ AdminChanges
    <2>1. stores \in Seq(StoreRow) /\ configs \in Seq(ConfigRow) BY DEF ConfigInv, ConfigTypeOK
    <2>2. configs' = configs /\ AdminChanges BY DEF AdminCreatesStore, AdminPatchesStore
    <2> QED BY <2>1, <2>2
  <1>3. /\ StoreNamed(f.name) = 0 => \A n \in DOMAIN stores : stores[n].name # f.name
        /\ \A n \in DOMAIN stores : stores[n].name = f.name => StoreNamed(f.name) = n
    BY NamedIsOnly DEF ConfigInv
  <1>4. PICK n \in 1..Len(stores) + 1 :
           /\ stores' \in Seq(StoreRow) /\ DOMAIN stores' = DOMAIN stores \cup {n}
           /\ \A m \in DOMAIN stores \ {n} : stores'[m] = stores[m]
           /\ stores'[n].name = f.name
           /\ ~Held(<<"store", f.name>>)
           /\ \A m \in DOMAIN stores \ {n} : stores[m].name # f.name
    <2>1. CASE AdminCreatesStore(f)
      <3>1. stores' = Append(stores, row) /\ StoreNamed(f.name) = 0 /\ ~Held(<<"store", f.name>>)
        BY <2>1 DEF AdminCreatesStore
      <3>2. Len(stores) + 1 \in 1..Len(stores) + 1 /\ row.name = f.name BY <1>2
      <3> HIDE DEF row
      <3> QED BY <3>1, <3>2, <1>1, <1>2, <1>3
    <2>2. CASE \E n \in 1..MaxSteps : AdminPatchesStore(n, f)
      <3>1. PICK n \in 1..MaxSteps : AdminPatchesStore(n, f) BY <2>2
      <3>2. /\ stores' = [stores EXCEPT ![n] = row] /\ StoreNamed(f.name) \in {0, n}
            /\ ~Held(<<"store", f.name>>) /\ n \in DOMAIN stores
        BY <3>1 DEF AdminPatchesStore
      <3>3. n \in 1..Len(stores) + 1 /\ row.name = f.name BY <1>2, <3>2
      <3> HIDE DEF row
      <3> QED BY <3>2, <3>3, <1>1, <1>2, <1>3
    <2> QED BY <2>1, <2>2
  <1>5. RowsSound' BY <1>2, <1>4 DEF ConfigInv, RowsSound
  <1>6. \A m \in DOMAIN stores' :
            \/ m \in DOMAIN stores /\ stores'[m].name = stores[m].name
            \/ ~Held(<<"store", stores'[m].name>>)
    BY <1>4
  <1> QED BY <1>2, <1>4, <1>5, <1>6, AdminKeeps

(* The admin leaves configs that are locked alone.                          *)
LEMMA AdminConfigsKeep ==
  ASSUME ConfigInv, NEW f \in Files, NEW n \in 1..MaxSteps,
         AdminCreatesConfig(n, f) \/ AdminPatchesConfig(n, f)
  PROVE  ConfigInv'
  <1>1. /\ configs \in Seq(ConfigRow) /\ Len(configs) \in Nat /\ DOMAIN configs = 1..Len(configs)
        /\ stores \in Seq(StoreRow) /\ stores' = stores /\ AdminChanges
    BY DEF ConfigInv, ConfigTypeOK, AdminCreatesConfig, AdminPatchesConfig
  <1>2. n \in Nat \ {0} BY FeedConfigAssumption
  <1>3. /\ configs' \in Seq(ConfigRow)
        /\ \A k \in DOMAIN configs : k \in DOMAIN configs' /\ configs'[k].store = configs[k].store
        /\ \A k \in DOMAIN configs' \ DOMAIN configs : configs'[k].store \in DOMAIN stores
    <2>1. CASE AdminCreatesConfig(n, f)
      <3>1. PICK c : c = [store |-> n, feed |-> f.feed, columns |-> f.source] OBVIOUS
      <3>2. configs' = Append(configs, c) /\ n \in DOMAIN stores
        BY <2>1, <3>1 DEF AdminCreatesConfig
      <3>3. c \in ConfigRow /\ c.store = n BY <3>1, <1>2 DEF ConfigRow
      <3> QED BY <3>2, <3>3, <1>1
    <2>2. CASE AdminPatchesConfig(n, f)
      <3>1. n \in DOMAIN configs BY <2>2 DEF AdminPatchesConfig
      <3>2. configs[n] \in ConfigRow BY <3>1, <1>1
      <3>3. PICK c : c = [configs[n] EXCEPT !.feed = f.feed, !.columns = f.source] OBVIOUS
      <3>4. c \in ConfigRow /\ c.store = configs[n].store BY <3>2, <3>3 DEF ConfigRow
      <3>5. configs' = [configs EXCEPT ![n] = c]
        BY <2>2, <3>1, <3>3, <1>1 DEF AdminPatchesConfig
      <3> QED BY <3>1, <3>4, <3>5, <1>1
    <2> QED BY <2>1, <2>2
  <1>4. RowsSound' BY <1>1, <1>3 DEF ConfigInv, RowsSound
  <1> QED BY <1>1, <1>3, <1>4, AdminKeeps

(* Every step keeps ConfigInv.                                              *)
LEMMA ConfigStep == ConfigInv /\ [ConfigNext]_configVars => ConfigInv'
  <1> SUFFICES ASSUME ConfigInv, [ConfigNext]_configVars PROVE ConfigInv' OBVIOUS
  <1>1. CASE UNCHANGED configVars
    <2>1. stores' = stores /\ configs' = configs /\ apply' = apply BY <1>1 DEF configVars
    <2>2. ConfigTypeOK' /\ RowsSound' /\ LocksApart'
      BY <2>1 DEF ConfigInv, ConfigTypeOK, RowsSound, LocksApart
    <2>3. AppliesSound' BY <2>1 DEF ConfigInv, AppliesSound, Sound, Past
    <2>4. AloneFinds'
      BY <2>1 DEF ConfigInv, AloneFinds, Apart, StoreFound, ConfigFound, ConfigsOf
    <2> QED BY <2>2, <2>3, <2>4 DEF ConfigInv
  <1>2. ASSUME NEW o \in Operators, NEW f \in Files, StartApply(o, f) PROVE ConfigInv'
    BY <1>2, StartApplyKeeps
  <1>3. ASSUME NEW o \in Operators, WriteStore(o) PROVE ConfigInv' BY <1>3, WriteStoreKeeps
  <1>4. ASSUME NEW o \in Operators, ReadConfig(o) PROVE ConfigInv' BY <1>4, ReadConfigKeeps
  <1>5. ASSUME NEW o \in Operators, WriteConfig(o) PROVE ConfigInv' BY <1>5, WriteConfigKeeps
  <1>6. ASSUME NEW o \in Operators, Commit(o) PROVE ConfigInv' BY <1>6, CommitKeeps
  <1>7. ASSUME NEW f \in Files,
               AdminCreatesStore(f) \/ \E n \in 1..MaxSteps : AdminPatchesStore(n, f)
        PROVE ConfigInv'
    BY <1>7, AdminStoresKeep
  <1>8. ASSUME NEW f \in Files, NEW n \in 1..MaxSteps,
               AdminCreatesConfig(n, f) \/ AdminPatchesConfig(n, f)
        PROVE ConfigInv'
    BY <1>8, AdminConfigsKeep
  <1> QED BY <1>1, <1>2, <1>3, <1>4, <1>5, <1>6, <1>7, <1>8 DEF ConfigNext

(* An apply ends in its commit, or because it was not alone or found two    *)
(* configs to choose from.                                                  *)
LEMMA LoneApplyCommits ==
  ASSUME ConfigInv, ConfigNext, NEW o \in Operators, NEW f \in Files,
         apply[o].file = f, apply'[o].file = None, apply[o].alone, ~Twins(f)
  PROVE  Commit(o)
  <1> SUFFICES ASSUME ~Commit(o) PROVE FALSE OBVIOUS
  <1> USE FeedConfigAssumption
  <1>0. /\ apply \in [Operators -> Apply] /\ apply[o] \in Apply /\ Sound(apply[o])
        /\ apply[o].pc # "idle"
    BY DEF ConfigInv, ConfigTypeOK, AppliesSound, Sound
  <1>1. StoreFound(apply[o]) BY <1>0 DEF ConfigInv, AloneFinds
  <1>2. StoreNamed(f.name) = apply[o].store
    <2>1. ConfigTypeOK /\ RowsSound /\ DOMAIN stores = 1..Len(stores) /\ Len(stores) \in Nat
      BY DEF ConfigInv, ConfigTypeOK
    <2>2. apply[o].store \in 0..Len(stores) BY <1>0 DEF Sound
    <2> QED BY <1>1, <2>1, <2>2, NamedIsOnly DEF StoreFound
  <1>4. ASSUME NEW p \in Operators, NEW g \in Files, StartApply(p, g) PROVE FALSE
    <2>1. CASE p = o BY <1>0, <1>4, <2>1 DEF StartApply, Open
    <2>2. CASE p # o
      <3>1. \E b : apply'[o] = [apply[o] EXCEPT !.alone = b] BY <1>4, <2>2 DEF StartApply
      <3> QED BY <3>1, <1>0 DEF Apply
    <2> QED BY <2>1, <2>2
  <1>5. apply'[o] # apply[o] BY <1>0, FeedConfigAssumption DEF Sound
  <1>6. ASSUME NEW p \in Operators, WriteStore(p) \/ ReadConfig(p) \/ WriteConfig(p) \/ Commit(p)
        PROVE  FALSE
    <2>1. CASE p # o
      <3>1. CASE WriteStore(p) BY <3>1, <2>1, <1>0, <1>5 DEF WriteStore, Undone
      <3>2. CASE ReadConfig(p) BY <3>2, <2>1, <1>0, <1>5 DEF ReadConfig, Undone
      <3>3. CASE WriteConfig(p) BY <3>3, <2>1, <1>0, <1>5 DEF WriteConfig
      <3>4. CASE Commit(p) BY <3>4, <2>1, <1>0, <1>5 DEF Commit, Undone
      <3> QED BY <1>6, <3>1, <3>2, <3>3, <3>4
    <2>2. CASE p = o /\ WriteStore(o)
      <3>1. CASE apply[o].store = 0 /\ StoreNamed(f.name) # 0 BY <3>1, <1>2
      <3>2. CASE ~(apply[o].store = 0 /\ StoreNamed(f.name) # 0)
        <4>1. \E l : apply'[o] = [apply[o] EXCEPT !.pc = "config", !.locks = l]
          BY <1>0, <2>2, <3>2 DEF WriteStore
        <4> QED BY <4>1, <1>0 DEF Apply
      <3> QED BY <3>1, <3>2
    <2>3. CASE p = o /\ ReadConfig(o)
      <3>1. CASE Cardinality(FoundConfigs(o)) > 1
        <4>1. FoundConfigs(o) # {} BY <3>1, FS_EmptySet
        <4>2. apply[o].store # 0 BY <4>1 DEF FoundConfigs
        <4> QED BY <3>1, <4>2, <1>2 DEF FoundConfigs, Twins
      <3>2. CASE ~(Cardinality(FoundConfigs(o)) > 1)
        <4>1. \E k, d : apply'[o] = [apply[o] EXCEPT !.pc = "write", !.config = k, !.differs = d]
          BY <1>0, <2>3, <3>2 DEF ReadConfig
        <4> QED BY <4>1, <1>0 DEF Apply
      <3> QED BY <3>1, <3>2
    <2>4. CASE p = o /\ WriteConfig(o)
      <3>1. \E l : apply'[o] = [apply[o] EXCEPT !.pc = "commit", !.locks = l]
        BY <1>0, <2>4 DEF WriteConfig
      <3> QED BY <3>1, <1>0 DEF Apply
    <2> QED BY <1>6, <2>1, <2>2, <2>3, <2>4
  <1>7. ASSUME AdminChanges PROVE FALSE
    <2>1. \E b : apply'[o] = [apply[o] EXCEPT !.alone = b] BY <1>7 DEF AdminChanges
    <2> QED BY <2>1, <1>0 DEF Apply
  <1> QED BY <1>4, <1>6, <1>7 DEF ConfigNext, AdminCreatesStore, AdminPatchesStore,
            AdminCreatesConfig, AdminPatchesConfig

(* Every state of applies and admin is sound.                               *)
LEMMA ConfigHolds == ConfigSpec => []ConfigInv
  <1> QED BY ConfigStarts, ConfigStep, PTL DEF ConfigSpec

(* The commit of an apply that is alone leaves what its file says.          *)
LEMMA LoneApplyWrites ==
  ASSUME ConfigInv, NEW o \in Operators, NEW f \in Files,
         apply[o].file = f, apply[o].alone, Commit(o), ConfigInv'
  PROVE  /\ Stored(f)'
         /\ \E k \in ConfigsOf(StoreNamed(f.name), f.feed)' :
               /\ configs'[k].columns = f.source
               /\ \A j \in DOMAIN configs' \ {k} :
                     j \in DOMAIN configs /\ configs'[j] = configs[j]
         /\ Cardinality(ConfigsOf(StoreNamed(f.name), f.feed)') = 1
         /\ \A m \in DOMAIN stores : stores[m].name # f.name => stores'[m] = stores[m]
  <1> DEFINE t == apply[o]
  <1>0. PICK n : n = IF t.store = 0 THEN Len(stores) + 1 ELSE t.store OBVIOUS
  <1>1. /\ t.pc = "commit" /\ t \in Apply /\ Sound(t) /\ t.file \in Files
        /\ stores' \in Seq(StoreRow) /\ configs' \in Seq(ConfigRow)
        /\ DOMAIN stores' = DOMAIN stores \cup {n} /\ n \in Nat \ {0}
        /\ t.store = 0 => n \notin DOMAIN stores
        /\ \A m \in DOMAIN stores : m # t.store => stores'[m] = stores[m]
        /\ t.store # 0 =>
             /\ n = t.store /\ stores'[n].name = stores[n].name
             /\ stores'[n].columns = IF <<"store", n>> \in t.locks THEN f.store
                                     ELSE stores[n].columns
        /\ t.store = 0 => stores'[n] = [name |-> f.name, columns |-> f.store]
    BY <1>0, CommitRows
  <1>2. /\ \A k \in DOMAIN configs : k # t.config => k \in DOMAIN configs' /\ configs'[k] = configs[k]
        /\ t.config # 0 =>
             /\ DOMAIN configs' = DOMAIN configs /\ t.config \in DOMAIN configs
             /\ configs'[t.config].store = configs[t.config].store
             /\ configs'[t.config].feed = configs[t.config].feed
             /\ configs'[t.config].columns =
                   IF <<"config", t.config>> \in t.locks THEN f.source
                   ELSE configs[t.config].columns
        /\ t.config = 0 =>
             /\ DOMAIN configs' = DOMAIN configs \cup {Len(configs) + 1}
             /\ Len(configs) + 1 \notin DOMAIN configs
             /\ configs'[Len(configs) + 1] = [store |-> n, feed |-> f.feed, columns |-> f.source]
    BY <1>0, CommitRows
  <1>3. StoreFound(t) /\ ConfigFound(t) BY <1>1 DEF ConfigInv, AloneFinds
  <1>4. stores'[n].name = f.name /\ stores'[n].columns = f.store /\ n \in DOMAIN stores'
    BY <1>1, <1>3 DEF StoreFound
  <1>5. Stored(f)'
    <2>0. stores' \in Seq(StoreRow) /\ n \in DOMAIN stores' BY <1>1, <1>4
    <2>1. stores'[n] \in StoreRow BY <2>0
    <2>2. stores'[n] = [name |-> f.name, columns |-> f.store] BY <2>1, <1>4 DEF StoreRow
    <2> QED BY <2>2, <1>4 DEF Stored
  <1>6. StoreNamed(f.name)' = n
    <2>1. \A m \in DOMAIN stores' : stores'[m].name = f.name => m = n
      BY <1>4 DEF ConfigInv, RowsSound
    <2> QED BY <2>1, <1>4, <1>1 DEF StoreNamed
  <1>7. PICK k : k = IF t.config = 0 THEN Len(configs) + 1 ELSE t.config OBVIOUS
  <1>8. k \in DOMAIN configs' /\ configs'[k].store = n /\ configs'[k].feed = f.feed
        /\ configs'[k].columns = f.source
    <2>1. CASE t.config = 0 BY <2>1, <1>2, <1>7
    <2>2. CASE t.config # 0
      <3>1. ConfigsOf(t.store, f.feed) = {t.config} BY <2>2, <1>1, <1>3 DEF ConfigFound
      <3>2. configs[t.config].store = t.store /\ configs[t.config].feed = f.feed
        BY <3>1 DEF ConfigsOf
      <3>3. t.store = n BY <2>2, <1>1 DEF Sound
      <3> QED BY <2>2, <3>2, <3>3, <1>1, <1>2, <1>3, <1>7 DEF ConfigFound
    <2> QED BY <2>1, <2>2
  <1>9. \A j \in DOMAIN configs' \ {k} : j \in DOMAIN configs /\ configs'[j] = configs[j]
    BY <1>2, <1>7
  <1>10. ASSUME NEW j \in DOMAIN configs' \ {k}, configs'[j].store = n, configs'[j].feed = f.feed
         PROVE  FALSE
    <2>1. j \in DOMAIN configs /\ configs[j].store = n /\ configs[j].feed = f.feed
      BY <1>9, <1>10
    <2>2. n \in DOMAIN stores BY <2>1 DEF ConfigInv, RowsSound
    <2>3. t.store = n BY <2>2, <1>1
    <2>4. j \in ConfigsOf(t.store, f.feed) BY <2>1, <2>3 DEF ConfigsOf
    <2>5. j = t.config /\ t.config # 0 BY <2>4, <1>1, <1>3 DEF ConfigFound
    <2> QED BY <2>5, <1>7
  <1>11. ConfigsOf(StoreNamed(f.name), f.feed)' = {k}
    BY <1>6, <1>8, <1>10 DEF ConfigsOf
  <1>12. Cardinality({k}) = 1 BY FS_Singleton
  <1>13. \A m \in DOMAIN stores : stores[m].name # f.name => stores'[m] = stores[m]
    <2> SUFFICES ASSUME NEW m \in DOMAIN stores, stores[m].name # f.name
                 PROVE  stores'[m] = stores[m]
      OBVIOUS
    <2>1. 0 \notin DOMAIN stores BY DEF ConfigInv, ConfigTypeOK
    <2>2. m # t.store BY <2>1, <1>3 DEF StoreFound
    <2> QED BY <2>2, <1>1
  <1> QED BY <1>5, <1>8, <1>9, <1>11, <1>12, <1>13

(* Whatever other stores' files are applied meanwhile, a file that nobody   *)
(* interferes with is applied as it is written, once, and to nothing else.  *)
THEOREM FilesAreApplied == ConfigSpec => AppliedAsWritten
  <1>1. ASSUME ConfigInv, ConfigInv', [ConfigNext]_configVars
        PROVE  [\A o \in Operators, f \in Files :
          /\ apply[o].file = f /\ apply'[o].file = None
          /\ apply[o].alone /\ ~Twins(f)
          => /\ Stored(f)'
             /\ \E k \in ConfigsOf(StoreNamed(f.name), f.feed)' :
                   /\ configs'[k].columns = f.source
                   /\ \A j \in DOMAIN configs' \ {k} :
                         j \in DOMAIN configs /\ configs'[j] = configs[j]
             /\ Cardinality(ConfigsOf(StoreNamed(f.name), f.feed)') = 1
             /\ \A m \in DOMAIN stores : stores[m].name # f.name => stores'[m] = stores[m]]_configVars
    <2> SUFFICES ASSUME ConfigNext, NEW o \in Operators, NEW f \in Files,
                        apply[o].file = f, apply'[o].file = None, apply[o].alone, ~Twins(f)
                 PROVE  /\ Stored(f)'
                        /\ \E k \in ConfigsOf(StoreNamed(f.name), f.feed)' :
                              /\ configs'[k].columns = f.source
                              /\ \A j \in DOMAIN configs' \ {k} :
                                    j \in DOMAIN configs /\ configs'[j] = configs[j]
                        /\ Cardinality(ConfigsOf(StoreNamed(f.name), f.feed)') = 1
                        /\ \A m \in DOMAIN stores :
                              stores[m].name # f.name => stores'[m] = stores[m]
      BY <1>1
    <2>1. Commit(o) BY <1>1, LoneApplyCommits
    <2> QED BY <1>1, <2>1, LoneApplyWrites
  <1> QED BY <1>1, ConfigHolds, PTL DEF ConfigSpec, AppliedAsWritten

-----------------------------------------------------------------------------
(* TelegramBot: commands reach the list that was meant *)

Flags == [active : BOOLEAN, archived : BOOLEAN]
Sets  == [active : BOOLEAN \cup {None}, archived : BOOLEAN \cup {None}]

Message ==
  [pc : {"idle", "lookup", "call", "wait"},
   command : {"pause", "resume", "archive", None}, typed : Typed \cup {None},
   meant : SUBSET Lists, found : Lists \cup {None}, gone : BOOLEAN,
   call : Calls \cup {None}, reply : Replies \cup {None}]

Request == [verb : Verbs, list : Lists, gone : BOOLEAN, sets : Sets]

BotTypeOK ==
  /\ shelf \in Seq(Lists)
  /\ flags \in [Lists -> Flags]
  /\ message \in [Messages -> Message]
  /\ call \in [Calls -> Request \cup {NoCall}]
  /\ shown \in SUBSET Lists /\ overlapped \in BOOLEAN

(* A message in hand knows what was typed, has no answer yet, and waits for *)
(* no request before its own.                                               *)
InHand(x) ==
  /\ x.pc # "idle" => x.command # None /\ x.typed \in Typed /\ x.reply = None
  /\ x.pc # "wait" => x.call = None
  /\ x.pc \in {"call", "wait"} => x.found \in Lists

(* The lists meant are still looked up, and what was found is the only one  *)
(* of them that may be called so.                                           *)
Meant(x) ==
  /\ x.meant \subseteq Newest(FindLimit)
  /\ x.pc = "call" => x.meant \cap Starts[x.typed] \subseteq {x.found}
  /\ x.pc = "call" /\ flags[x.found].archived => x.gone

MessagesSound == \A m \in Messages : InHand(message[m]) /\ Meant(message[m])

ResumesSound ==
  \A c \in Calls : call[c].verb = "resume" /\ flags[call[c].list].archived => call[c].gone

(* Until two requests meet on a list, each still finds the flags it read.   *)
Unmet ==
  ~overlapped =>
    /\ \A c, d \in Calls : c # d /\ call[c] # NoCall => call[c].list # call[d].list
    /\ \A c \in Calls : call[c] # NoCall =>
          call[c].sets = Differing(call[c].list, call[c].verb)
    /\ \A l \in Lists : flags[l].archived => ~flags[l].active

BotInv ==
  /\ BotTypeOK /\ shown \subseteq Newest(FindLimit)
  /\ MessagesSound /\ ResumesSound /\ Unmet

-----------------------------------------------------------------------------
(* None is no list, no text, no request and no flag.                        *)
LEMMA NoneIsNoValue ==
  /\ None \notin Verbs /\ None # "unknown" /\ None \notin BOOLEAN
  /\ None \notin Lists /\ None \notin Typed /\ None \notin Calls /\ None \notin Replies
  BY TelegramBotAssumption DEF Replies, Verbs

(* The lists that are shown are among those that are looked up.             *)
LEMMA NewestGrows ==
  ASSUME BotTypeOK
  PROVE  Newest(ShowLimit) \subseteq Newest(FindLimit) /\ Newest(FindLimit) \subseteq Lists
  <1> USE TelegramBotAssumption
  <1>1. DOMAIN shelf = 1..Len(shelf) /\ Len(shelf) \in Nat BY DEF BotTypeOK
  <1>2. Unarchived \subseteq 1..Len(shelf) BY <1>1 DEF Unarchived
  <1>3. IsFiniteSet(1..Len(shelf)) BY <1>1, FS_Interval
  <1>4. ASSUME NEW k PROVE Cardinality({i \in Unarchived : i < k}) \in Nat
    <2>1. {i \in Unarchived : i < k} \subseteq 1..Len(shelf) BY <1>2
    <2> QED BY <1>3, <2>1, FS_Subset, FS_CardinalityType
  <1>5. ShowLimit \in Nat /\ FindLimit \in Nat /\ ShowLimit <= FindLimit OBVIOUS
  <1>6. ASSUME NEW k \in Unarchived, Cardinality({i \in Unarchived : i < k}) < ShowLimit
        PROVE  Cardinality({i \in Unarchived : i < k}) < FindLimit
    <2> DEFINE n == Cardinality({i \in Unarchived : i < k})
    <2>1. n \in Nat /\ n < ShowLimit BY <1>4, <1>6
    <2> HIDE DEF n
    <2>2. n < FindLimit BY <2>1, <1>5
    <2> QED BY <2>2 DEF n
  <1>7. \A k \in Unarchived : shelf[k] \in Lists BY <1>1, <1>2 DEF BotTypeOK
  <1>8. Newest(FindLimit) \subseteq Lists BY <1>7 DEF Newest
  <1> QED BY <1>6, <1>8 DEF Newest

(* At first nobody has typed anything.                                      *)
LEMMA BotStarts == BotInit => BotInv
  <1> SUFFICES ASSUME BotInit PROVE BotInv OBVIOUS
  <1> USE TelegramBotAssumption DEF BotInit
  <1>1. shelf \in Seq(Lists)
    <2>1. PICK S \in SUBSET Lists : shelf \in InSomeOrder(S) OBVIOUS
    <2>2. PICK n : n = Cardinality(S) OBVIOUS
    <2>3. n \in Nat BY <2>2, FS_Subset, FS_CardinalityType
    <2>4. shelf \in [1..n -> Lists] BY <2>1, <2>2 DEF InSomeOrder
    <2> QED BY <2>3, <2>4
  <1>2. NoMessage \in Message BY DEF NoMessage, Message
  <1>3. BotTypeOK
    <2>1. flags \in [Lists -> Flags] BY DEF Fresh, Flags
    <2>2. message \in [Messages -> Message] BY <1>2
    <2>3. call \in [Calls -> Request \cup {NoCall}] OBVIOUS
    <2> QED BY <1>1, <2>1, <2>2, <2>3 DEF BotTypeOK
  <1>4. MessagesSound
    <2>1. ASSUME NEW m \in Messages PROVE message[m] = NoMessage OBVIOUS
    <2>2. InHand(NoMessage) BY DEF InHand, NoMessage
    <2>3. Meant(NoMessage) BY DEF Meant, NoMessage
    <2> QED BY <2>1, <2>2, <2>3 DEF MessagesSound
  <1>5. ResumesSound BY NoneIsNoValue DEF ResumesSound, NoCall, Verbs
  <1>6. Unmet BY DEF Unmet, Fresh
  <1> QED BY <1>3, <1>4, <1>5, <1>6 DEF BotInv

(* A step that leaves lists and requests alone and goes on with one message *)
LEMMA OneMessage ==
  ASSUME BotInv, NEW m \in Messages, NEW x \in Message,
         message' = [message EXCEPT ![m] = x], InHand(x), Meant(x),
         UNCHANGED <<shelf, deleted, flags, call, shown, overlapped>>
  PROVE  BotInv'
  <1>1. message'[m] = x /\ \A n \in Messages \ {m} : message'[n] = message[n]
    BY DEF BotInv, BotTypeOK
  <1>2. Newest(FindLimit)' = Newest(FindLimit) BY DEF Newest, Unarchived, Kept, Made
  <1>3. BotTypeOK' BY DEF BotInv, BotTypeOK
  <1>4. MessagesSound'
    <2> SUFFICES ASSUME NEW n \in Messages PROVE InHand(message[n])' /\ Meant(message[n])'
      BY DEF MessagesSound
    <2>1. PICK y : y = message'[n] OBVIOUS
    <2>2. InHand(y) /\ Meant(y) BY <2>1, <1>1 DEF BotInv, MessagesSound
    <2> QED BY <2>1, <2>2, <1>2 DEF InHand, Meant
  <1>5. ResumesSound' BY DEF BotInv, ResumesSound
  <1>6. Unmet' BY DEF BotInv, Unmet, Differing
  <1> QED BY <1>2, <1>3, <1>4, <1>5, <1>6 DEF BotInv

(* What is shown is among the lists looked up.                              *)
LEMMA ShowingKeeps == ASSUME BotInv, NEW m \in Messages, ShowLists(m) PROVE BotInv'
  <1> USE DEF BotInv, ShowLists
  <1>1. Newest(FindLimit)' = Newest(FindLimit) BY DEF Newest, Unarchived, Kept, Made
  <1>2. shown' \subseteq Newest(FindLimit) /\ shown' \subseteq Lists BY NewestGrows
  <1>3. BotTypeOK' BY <1>2 DEF BotTypeOK
  <1>4. MessagesSound' BY <1>1 DEF MessagesSound, InHand, Meant
  <1>5. ResumesSound' BY DEF ResumesSound
  <1>6. Unmet' BY DEF Unmet, Differing
  <1> QED BY <1>1, <1>2, <1>3, <1>4, <1>5, <1>6

(* A command is meant for what was shown.                                   *)
LEMMA CommandKeeps ==
  ASSUME BotInv, NEW m \in Messages, NEW p \in Typed,
         NEW command \in {"pause", "resume", "archive"}, Command(m, command, p)
  PROVE  BotInv'
  <1> DEFINE x == [NoMessage EXCEPT !.pc = "lookup", !.command = command, !.typed = p,
                                    !.meant = shown]
  <1>1. /\ x.pc = "lookup" /\ x.command = command /\ x.typed = p /\ x.meant = shown
        /\ x.found = None /\ x.gone = FALSE /\ x.call = None /\ x.reply = None
    BY DEF NoMessage
  <1>2. x \in Message BY DEF NoMessage, Message, BotInv, BotTypeOK
  <1>3. message' = [message EXCEPT ![m] = x] BY DEF Command
  <1>4. command # None BY NoneIsNoValue DEF Verbs
  <1> HIDE DEF x
  <1>5. InHand(x) BY <1>1, <1>4 DEF InHand
  <1>6. Meant(x) BY <1>1 DEF Meant, BotInv
  <1> QED BY <1>2, <1>3, <1>5, <1>6, OneMessage DEF Command

(* A message that is done with *)
LEMMA RepliedKeeps ==
  ASSUME BotInv, NEW m \in Messages, NEW text \in Replies \cup {None},
         message' = Replied(m, text),
         UNCHANGED <<shelf, deleted, flags, call, shown, overlapped>>
  PROVE  BotInv'
  <1> DEFINE x == [NoMessage EXCEPT !.reply = text]
  <1>1. x.pc = "idle" /\ x.meant = {} /\ x.call = None BY DEF NoMessage
  <1>2. x \in Message BY DEF NoMessage, Message
  <1>3. message' = [message EXCEPT ![m] = x] BY DEF Replied
  <1> HIDE DEF x
  <1>4. InHand(x) /\ Meant(x) BY <1>1 DEF InHand, Meant
  <1> QED BY <1>2, <1>3, <1>4, OneMessage

(* The one list found is the only one meant that begins so.                 *)
LEMMA LookUpKeeps == ASSUME BotInv, NEW m \in Messages, LookUp(m) PROVE BotInv'
  <1> DEFINE found == Named(message[m].typed)
             x(l) == [message[m] EXCEPT !.pc = "call", !.found = l]
  <1>1. /\ message[m] \in Message /\ message[m].pc = "lookup"
        /\ message[m].meant \subseteq Newest(FindLimit)
    BY DEF BotInv, BotTypeOK, MessagesSound, Meant, LookUp
  <1>2. found \subseteq Lists /\ IsFiniteSet(found)
    BY NewestGrows, TelegramBotAssumption, FS_Subset DEF Named, BotInv
  <1>3. CASE Cardinality(found) = 1
    <2>1. PICK l : found = {l} BY <1>2, <1>3, FS_Singleton
    <2>2. message' = [message EXCEPT ![m] = x(l)]
      <3>1. (CHOOSE k \in found : TRUE) = l BY <2>1
      <3>2. message' = [message EXCEPT ![m].pc = "call", ![m].found = l]
        BY <1>3, <3>1 DEF LookUp
      <3>3. message \in [Messages -> Message] BY DEF BotInv, BotTypeOK
      <3> QED BY <3>2, <3>3 DEF Message
    <2>3. l \in Lists BY <1>2, <2>1
    <2>4. PICK y : y = x(l) OBVIOUS
    <2>5. /\ y.pc = "call" /\ y.found = l /\ y.typed = message[m].typed
          /\ y.meant = message[m].meant /\ y.call = message[m].call
          /\ y.command = message[m].command /\ y.reply = message[m].reply
      BY <1>1, <2>4 DEF Message
    <2>6. y \in Message BY <1>1, <2>3, <2>4 DEF Message
    <2>7. InHand(y) BY <1>1, <2>3, <2>5 DEF InHand, BotInv, MessagesSound
    <2>8. Newest(FindLimit) \cap Starts[y.typed] = {l} BY <2>1, <2>5 DEF Named
    <2>9. ~flags[l].archived BY <2>8 DEF Newest, Unarchived
    <2>10. Meant(y) BY <1>1, <2>5, <2>8, <2>9 DEF Meant
    <2>11. message' = [message EXCEPT ![m] = y] BY <2>2, <2>4
    <2> HIDE DEF x, found
    <2> QED BY <2>6, <2>7, <2>10, <2>11, OneMessage DEF LookUp
  <1>4. CASE Cardinality(found) # 1
    <2>1. PICK text \in {"unknown", "ambiguous"} : message' = Replied(m, text)
      BY <1>4 DEF LookUp
    <2> QED BY <2>1, RepliedKeeps DEF LookUp, Replies
  <1> QED BY <1>3, <1>4

(* A message that is answered forgets what it was about.                    *)
LEMMA RefusalKeeps == ASSUME BotInv, NEW m \in Messages, Refuse(m) \/ Drop(m) PROVE BotInv'
  <1>1. PICK text \in Replies \cup {None} : message' = Replied(m, text)
    BY DEF Refuse, Drop, Replies
  <1> QED BY <1>1, RepliedKeeps DEF Refuse, Drop

-----------------------------------------------------------------------------
(* An idle handler can be told from one at work.                            *)
LEMMA NoCallIsNoRequest == NoCall \notin Request
  BY NoneIsNoValue DEF NoCall, Request

(* What a request finds different is what it may write.                     *)
LEMMA DifferencesAreSets ==
  ASSUME BotTypeOK, NEW l \in Lists, NEW verb \in Verbs
  PROVE  Differing(l, verb) \in Sets
  <1>1. flags[l].active \in BOOLEAN /\ flags[l].archived \in BOOLEAN BY DEF BotTypeOK, Flags
  <1>2. /\ Effect(verb).active \in BOOLEAN \cup {None}
        /\ Effect(verb).archived \in BOOLEAN \cup {None}
    BY DEF Effect, Verbs
  <1> QED BY <1>1, <1>2 DEF Differing, Sets

(* A handler begins on a list *)
LEMMA AcceptKeeps ==
  ASSUME BotInv, NEW c \in Calls, NEW verb \in Verbs, NEW l \in Lists, NEW gone \in BOOLEAN,
         Accept(c, verb, l, gone), verb = "resume" /\ flags[l].archived => gone,
         message' \in [Messages -> Message], MessagesSound'
  PROVE  BotInv'
  <1> USE DEF BotInv
  <1> DEFINE r == [verb |-> verb, list |-> l, gone |-> gone, sets |-> Differing(l, verb)]
  <1>1. r \in Request BY DifferencesAreSets DEF Request
  <1>2. call' = [call EXCEPT ![c] = r] /\ call[c] = NoCall BY DEF Accept
  <1>3. r.verb = verb /\ r.list = l /\ r.gone = gone /\ r.sets = Differing(l, verb) OBVIOUS
  <1> HIDE DEF r
  <1>4. call'[c] = r /\ \A d \in Calls \ {c} : call'[d] = call[d] BY <1>2 DEF BotTypeOK
  <1>5. UNCHANGED <<shelf, deleted, flags, shown>> BY DEF Accept
  <1>6. Newest(FindLimit)' = Newest(FindLimit) BY <1>5 DEF Newest, Unarchived, Kept, Made
  <1>7. overlapped' \in BOOLEAN BY DEF Accept, BotTypeOK
  <1>8. BotTypeOK' BY <1>1, <1>2, <1>5, <1>7 DEF BotTypeOK
  <1>9. ResumesSound' BY <1>3, <1>4, <1>5 DEF ResumesSound
  <1>10. Unmet'
    <2> SUFFICES ASSUME ~overlapped' PROVE Unmet' BY DEF Unmet
    <2>1. ~overlapped /\ \A d \in Calls : call[d].list # l BY DEF Accept
    <2>2. ASSUME NEW a \in Calls, NEW d \in Calls, a # d, call'[a] # NoCall
          PROVE  call'[a].list # call'[d].list
      <3>1. CASE a = c BY <2>1, <2>2, <3>1, <1>3, <1>4
      <3>2. CASE d = c BY <2>1, <2>2, <3>2, <1>3, <1>4
      <3>3. CASE a # c /\ d # c BY <2>1, <2>2, <3>3, <1>4 DEF Unmet
      <3> QED BY <3>1, <3>2, <3>3
    <2>3. ASSUME NEW d \in Calls, call'[d] # NoCall
          PROVE  call'[d].sets = Differing(call'[d].list, call'[d].verb)
      BY <2>1, <2>3, <1>3, <1>4 DEF Unmet
    <2>4. \A k \in Lists, v \in Verbs : Differing(k, v)' = Differing(k, v)
      BY <1>5 DEF Differing
    <2>5. ASSUME NEW d \in Calls, call'[d] # NoCall
          PROVE  (call[d].sets = Differing(call[d].list, call[d].verb))'
      <3>1. PICK b : b = call'[d] OBVIOUS
      <3>2. b \in Request BY <3>1, <2>5, <1>8 DEF BotTypeOK
      <3>3. b.list \in Lists /\ b.verb \in Verbs BY <3>2 DEF Request
      <3>4. b.sets = Differing(b.list, b.verb) BY <2>3, <2>5, <3>1
      <3> QED BY <3>1, <3>3, <3>4, <1>5 DEF Differing
    <2> QED BY <2>1, <2>2, <2>5, <1>5 DEF Unmet
  <1> QED BY <1>5, <1>6, <1>8, <1>9, <1>10

(* A request of the bot is about the list it found.                         *)
LEMMA BotCallsKeeps ==
  ASSUME BotInv, NEW m \in Messages, NEW c \in Calls, BotCalls(m, c)
  PROVE  BotInv'
  <1> DEFINE x == [message[m] EXCEPT !.pc = "wait", !.call = c]
  <1>1. message \in [Messages -> Message] /\ message[m] \in Message /\ message[m].pc = "call"
    BY DEF BotInv, BotTypeOK, BotCalls
  <1>2. message[m].found \in Lists /\ message[m].command \in {"pause", "resume", "archive"}
    BY <1>1, NoneIsNoValue DEF BotInv, MessagesSound, InHand, Message
  <1>3. message' = [message EXCEPT ![m] = x]
    <2>1. message' = [message EXCEPT ![m].pc = "wait", ![m].call = c] BY DEF BotCalls
    <2> QED BY <1>1, <2>1 DEF Message
  <1>4. PICK y : y = x OBVIOUS
  <1>5. /\ y.pc = "wait" /\ y.call = c /\ y.found = message[m].found
        /\ y.typed = message[m].typed /\ y.command = message[m].command
        /\ y.reply = message[m].reply /\ y.meant = message[m].meant /\ y \in Message
    BY <1>1, <1>4 DEF Message
  <1>6. message' = [message EXCEPT ![m] = y] BY <1>3, <1>4
  <1> HIDE DEF x
  <1>7. InHand(y) /\ Meant(y) BY <1>1, <1>2, <1>5 DEF InHand, Meant, BotInv, MessagesSound
  <1>8. message'[m] = y /\ \A n \in Messages \ {m} : message'[n] = message[n] BY <1>1, <1>6
  <1>9. message' \in [Messages -> Message] BY <1>1, <1>5, <1>6
  <1>10. UNCHANGED <<shelf, deleted, flags>> BY DEF BotCalls, Accept
  <1>11. Newest(FindLimit)' = Newest(FindLimit) BY <1>10 DEF Newest, Unarchived, Kept, Made
  <1>12. MessagesSound'
    <2> SUFFICES ASSUME NEW n \in Messages PROVE InHand(message[n])' /\ Meant(message[n])'
      BY DEF MessagesSound
    <2>1. PICK z : z = message'[n] OBVIOUS
    <2>2. InHand(z) /\ Meant(z) BY <2>1, <1>7, <1>8 DEF BotInv, MessagesSound
    <2> QED BY <2>1, <2>2, <1>10, <1>11 DEF InHand, Meant
  <1>13. flags[message[m].found].archived => message[m].gone
    BY <1>1 DEF BotInv, MessagesSound, Meant
  <1>14. message[m].gone \in BOOLEAN /\ message[m].command \in Verbs
    BY <1>1, <1>2 DEF Message, Verbs
  <1>15. Accept(c, message[m].command, message[m].found, message[m].gone) BY DEF BotCalls
  <1> QED BY <1>2, <1>9, <1>12, <1>13, <1>14, <1>15, AcceptKeeps

(* A request of the web app is about any list.                              *)
LEMMA WebCallsKeeps ==
  ASSUME BotInv, NEW c \in Calls, NEW l \in Lists,
         NEW verb \in {"pause", "archive", "restore", "delete"}, WebCalls(c, verb, l)
  PROVE  BotInv'
  <1>1. UNCHANGED <<shelf, deleted, flags, message>> BY DEF WebCalls, Accept
  <1>2. Newest(FindLimit)' = Newest(FindLimit) BY <1>1 DEF Newest, Unarchived, Kept, Made
  <1>3. MessagesSound' BY <1>1, <1>2 DEF BotInv, MessagesSound, InHand, Meant
  <1>4. message' \in [Messages -> Message] BY <1>1 DEF BotInv, BotTypeOK
  <1>5. verb # "resume" /\ verb \in Verbs BY DEF Verbs
  <1>6. Accept(c, verb, l, FALSE) BY DEF WebCalls
  <1> QED BY <1>3, <1>4, <1>5, <1>6, AcceptKeeps

-----------------------------------------------------------------------------
(* A message that can name fewer lists than before *)
Fewer(x, gone, S) == [x EXCEPT !.gone = @ \/ x.found \in gone, !.meant = @ \cap S]

Shrunk(y, x, gone, S) ==
  /\ y \in Message /\ InHand(y) /\ y.meant = x.meant \cap S
  /\ y.pc = x.pc /\ y.typed = x.typed /\ y.found = x.found
  /\ x.gone \/ x.found \in gone => y.gone
  /\ y.pc = "call" => y.meant \cap Starts[y.typed] \subseteq {y.found}

(* Lists meant are lost when they can no longer be named.                   *)
LEMMA MeantShrinks ==
  ASSUME BotInv
  PROVE  \A m \in Messages, gone \in SUBSET Lists, S \in SUBSET Lists :
           Shrunk(Fewer(message[m], gone, S), message[m], gone, S)
  <1> SUFFICES ASSUME NEW m \in Messages, NEW gone \in SUBSET Lists, NEW S \in SUBSET Lists
               PROVE  Shrunk(Fewer(message[m], gone, S), message[m], gone, S)
    OBVIOUS
  <1>0. PICK y : y = Fewer(message[m], gone, S) OBVIOUS
  <1>1. message[m] \in Message /\ InHand(message[m]) /\ Meant(message[m])
    BY DEF BotInv, BotTypeOK, MessagesSound
  <1>2. PICK b \in BOOLEAN : b <=> message[m].gone \/ message[m].found \in gone OBVIOUS
  <1>3. y = [message[m] EXCEPT !.gone = b, !.meant = message[m].meant \cap S]
    BY <1>0, <1>1, <1>2 DEF Message, Fewer
  <1>4. /\ y.pc = message[m].pc /\ y.typed = message[m].typed /\ y.found = message[m].found
        /\ y.command = message[m].command /\ y.call = message[m].call
        /\ y.reply = message[m].reply /\ y.meant = message[m].meant \cap S /\ y.gone = b
    BY <1>1, <1>3 DEF Message
  <1>5. y \in Message
    <2>1. message[m].meant \cap S \in SUBSET Lists BY <1>1 DEF Message
    <2> QED BY <1>1, <1>3, <2>1 DEF Message
  <1> QED BY <1>0, <1>1, <1>2, <1>4, <1>5 DEF InHand, Meant, Shrunk

(* A new list may push another out of the newest.                           *)
LEMMA WebCreatesKeeps == ASSUME BotInv, NEW l \in Lists, WebCreates(l) PROVE BotInv'
  <1> DEFINE N == Newest(FindLimit)'
             y(m) == Fewer(message[m], {}, N \cap Lists)
  <1>1. message \in [Messages -> Message] BY DEF BotInv, BotTypeOK
  <1>2. UNCHANGED <<flags, deleted, call, overlapped>> BY DEF WebCreates
  <1>3. shelf' \in Seq(Lists) BY DEF WebCreates, BotInv, BotTypeOK
  <1>4. shown' = shown \cap N BY DEF WebCreates, Remain
  <1>5. ASSUME NEW m \in Messages PROVE message'[m] = y(m)
    <2>1. message'[m] = [message[m] EXCEPT !.meant = @ \cap N] BY DEF WebCreates, Remain
    <2>2. message[m] \in Message BY <1>1
    <2>3. message[m].meant \cap N = message[m].meant \cap (N \cap Lists) BY <2>2 DEF Message
    <2>4. (message[m].gone \/ message[m].found \in {}) = message[m].gone BY <2>2 DEF Message
    <2> QED BY <2>1, <2>2, <2>3, <2>4 DEF Message, Fewer
  <1>6. N \cap Lists \in SUBSET Lists OBVIOUS
  <1>7. message' \in [Messages -> Message]
    <2>1. \A m \in Messages : y(m) \in Message BY <1>6, MeantShrinks DEF Shrunk
    <2>2. message' = [m \in Messages |-> message'[m]] BY DEF WebCreates
    <2> QED BY <1>5, <2>1, <2>2
  <1>8. BotTypeOK' BY <1>2, <1>3, <1>4, <1>7 DEF BotInv, BotTypeOK
  <1>9. MessagesSound'
    <2> SUFFICES ASSUME NEW m \in Messages PROVE InHand(message[m])' /\ Meant(message[m])'
      BY DEF MessagesSound
    <2>1. PICK x : x = message'[m] OBVIOUS
    <2>2. x = y(m) BY <1>5, <2>1
    <2>3. /\ InHand(x) /\ x.meant \subseteq N
          /\ x.pc = message[m].pc /\ x.found = message[m].found
          /\ message[m].gone => x.gone
          /\ x.pc = "call" => x.meant \cap Starts[x.typed] \subseteq {x.found}
      <3>1. Shrunk(x, message[m], {}, N \cap Lists) BY <1>6, <2>2, MeantShrinks
      <3> QED BY <3>1 DEF Shrunk
    <2>4. x.pc = "call" /\ flags[x.found].archived => x.gone
      BY <2>3 DEF BotInv, MessagesSound, Meant
    <2> HIDE DEF y
    <2> QED BY <2>1, <2>3, <2>4, <1>2 DEF InHand, Meant
  <1>10. ResumesSound' BY <1>2 DEF BotInv, ResumesSound
  <1>11. Unmet' BY <1>2 DEF BotInv, Unmet, Differing
  <1> QED BY <1>4, <1>8, <1>9, <1>10, <1>11 DEF BotInv

(* A handler ends; what it has archived or deleted is gone *)
LEMMA AnswerKeeps ==
  ASSUME BotInv, NEW c \in Calls, call[c] # NoCall, NEW text \in Replies,
         NEW gone \in SUBSET Lists, Answer(c, text, gone),
         shelf' = shelf, flags' \in [Lists -> Flags],
         \A l \in Lists : flags'[l].archived => flags[l].archived \/ l \in gone,
         ~overlapped => \A l \in Lists \ {call[c].list} : flags'[l] = flags[l],
         ~overlapped => \A l \in Lists : flags'[l].archived => ~flags'[l].active
  PROVE  BotInv'
  <1> DEFINE N == Newest(FindLimit)'
             y(m) == Fewer(message[m], gone, N \cap Lists)
             z == [NoMessage EXCEPT !.reply = text]
             r(d) == [call[d] EXCEPT !.gone = @ \/ call[d].list \in gone]
  <1>1. /\ message \in [Messages -> Message] /\ call \in [Calls -> Request \cup {NoCall}]
        /\ call[c] \in Request
    BY DEF BotInv, BotTypeOK
  <1>2. overlapped' = overlapped /\ shown' = shown \cap N BY DEF Answer, Remain
  <1>3. ASSUME NEW m \in Messages PROVE message'[m] = z \/ message'[m] = y(m)
    <2>1. message[m] \in Message BY <1>1
    <2>2. message[m].meant \cap N = message[m].meant \cap (N \cap Lists) BY <2>1 DEF Message
    <2>3. CASE message[m].call = c BY <2>3 DEF Answer
    <2>4. CASE message[m].call # c
      <3>1. message'[m] = [message[m] EXCEPT !.gone = @ \/ message[m].found \in gone,
                                             !.meant = @ \cap N]
        BY <2>4 DEF Answer, Remain
      <3> QED BY <2>1, <2>2, <3>1 DEF Message, Fewer
    <2> QED BY <2>3, <2>4
  <1>4. /\ z \in Message /\ z.pc = "idle" /\ z.meant = {} /\ z.call = None
    BY DEF NoMessage, Message
  <1>5. message' \in [Messages -> Message]
    <2>1. \A m \in Messages : y(m) \in Message
      <3>1. N \cap Lists \in SUBSET Lists OBVIOUS
      <3> QED BY <3>1, MeantShrinks DEF Shrunk
    <2>2. message' = [m \in Messages |-> message'[m]] BY DEF Answer
    <2> QED BY <1>3, <1>4, <2>1, <2>2
  <1>6. call'[c] = NoCall BY DEF Answer
  <1>7. ASSUME NEW d \in Calls, d # c, call[d] = NoCall PROVE call'[d] = NoCall
    <2>1. None \notin gone BY NoneIsNoValue
    <2>2. PICK b \in BOOLEAN : b <=> FALSE \/ None \in gone OBVIOUS
    <2>3. NoCall.gone = FALSE /\ NoCall.list = None BY DEF NoCall
    <2>4. call'[d] = [NoCall EXCEPT !.gone = @ \/ NoCall.list \in gone] BY <1>7 DEF Answer
    <2>5. call'[d] = [NoCall EXCEPT !.gone = FALSE] BY <2>1, <2>3, <2>4 DEF NoCall
    <2> QED BY <2>5 DEF NoCall
  <1>8. ASSUME NEW d \in Calls, d # c, call[d] \in Request
        PROVE  /\ call'[d] \in Request /\ call'[d].list = call[d].list
               /\ call'[d].verb = call[d].verb /\ call'[d].sets = call[d].sets
               /\ call'[d].gone <=> call[d].gone \/ call[d].list \in gone
    <2>1. PICK b \in BOOLEAN : b <=> call[d].gone \/ call[d].list \in gone OBVIOUS
    <2>2. call'[d] = r(d) BY <1>8 DEF Answer
    <2>3. call'[d] = [call[d] EXCEPT !.gone = b] BY <1>8, <2>1, <2>2 DEF Request
    <2> HIDE DEF r
    <2> QED BY <1>8, <2>1, <2>3 DEF Request
  <1> HIDE DEF z, r
  <1>9. call' \in [Calls -> Request \cup {NoCall}]
    <2>1. call' = [d \in Calls |-> call'[d]] BY DEF Answer
    <2>2. \A d \in Calls : call'[d] \in Request \cup {NoCall} BY <1>1, <1>6, <1>7, <1>8
    <2> QED BY <2>1, <2>2
  <1>10. BotTypeOK' BY <1>2, <1>5, <1>9 DEF BotInv, BotTypeOK
  <1>11. MessagesSound'
    <2> SUFFICES ASSUME NEW m \in Messages PROVE InHand(message[m])' /\ Meant(message[m])'
      BY DEF MessagesSound
    <2>1. PICK x : x = message'[m] OBVIOUS
    <2>2. CASE x = z
      <3>1. x.pc = "idle" /\ x.meant = {} /\ x.call = None BY <1>4, <2>2
      <3> QED BY <2>1, <3>1 DEF InHand, Meant
    <2>3. CASE x = y(m)
      <3>1. /\ InHand(x) /\ x.meant \subseteq N
            /\ x.pc = message[m].pc /\ x.found = message[m].found
            /\ message[m].gone \/ message[m].found \in gone => x.gone
            /\ x.pc = "call" => x.meant \cap Starts[x.typed] \subseteq {x.found}
        <4>1. N \cap Lists \in SUBSET Lists OBVIOUS
        <4>2. Shrunk(x, message[m], gone, N \cap Lists) BY <2>3, <4>1, MeantShrinks
        <4> QED BY <4>2 DEF Shrunk
      <3>2. x.pc = "call" => x.found \in Lists BY <3>1 DEF InHand
      <3>3. x.pc = "call" /\ flags'[x.found].archived => x.gone
        BY <3>1, <3>2 DEF BotInv, MessagesSound, Meant
      <3> HIDE DEF y
      <3> QED BY <2>1, <3>1, <3>3 DEF InHand, Meant
    <2> QED BY <1>3, <2>1, <2>2, <2>3
  <1>12. ResumesSound'
    <2> SUFFICES ASSUME NEW d \in Calls, call'[d].verb = "resume", flags'[call'[d].list].archived
                 PROVE  call'[d].gone
      BY DEF ResumesSound
    <2>1. NoCall.verb # "resume" BY NoneIsNoValue DEF NoCall, Verbs
    <2>2. d # c /\ call[d] \in Request BY <1>1, <1>6, <1>7, <2>1
    <2>3. call[d].list \in Lists BY <2>2 DEF Request
    <2> QED BY <2>2, <2>3, <1>8 DEF BotInv, ResumesSound
  <1>13. Unmet'
    <2> SUFFICES ASSUME ~overlapped PROVE Unmet' BY <1>2 DEF Unmet
    <2>1. ASSUME NEW a \in Calls, call'[a] # NoCall PROVE a # c /\ call[a] \in Request
      BY <2>1, <1>1, <1>6, <1>7
    <2>2. ASSUME NEW a \in Calls, NEW d \in Calls, a # d, call'[a] # NoCall
          PROVE  call'[a].list # call'[d].list
      <3>1. a # c /\ call[a] \in Request /\ call'[a].list = call[a].list BY <2>1, <2>2, <1>8
      <3>2. CASE call'[d] = NoCall
        BY <3>1, <3>2, NoneIsNoValue DEF NoCall, Request
      <3>3. CASE call'[d] # NoCall
        <4>1. d # c /\ call[d] \in Request /\ call'[d].list = call[d].list
          BY <2>1, <3>3, <1>8
        <4> QED BY <2>2, <3>1, <4>1, NoCallIsNoRequest DEF BotInv, Unmet
      <3> QED BY <3>2, <3>3
    <2>3. ASSUME NEW d \in Calls, call'[d] # NoCall
          PROVE  (call[d].sets = Differing(call[d].list, call[d].verb))'
      <3>1. d # c /\ call[d] \in Request BY <2>1, <2>3
      <3>2. PICK b : b = call'[d] OBVIOUS
      <3>3. b.list = call[d].list /\ b.verb = call[d].verb /\ b.sets = call[d].sets
        BY <3>1, <3>2, <1>8
      <3>4. call[d].sets = Differing(call[d].list, call[d].verb) /\ call[d].list # call[c].list
        BY <3>1, NoCallIsNoRequest DEF BotInv, Unmet
      <3>5. flags'[b.list] = flags[b.list] BY <3>1, <3>3, <3>4 DEF Request
      <3>6. b.sets = Differing(b.list, b.verb) BY <3>3, <3>4
      <3> QED BY <3>2, <3>5, <3>6 DEF Differing
    <2> QED BY <2>2, <2>3, <1>2 DEF Unmet
  <1> QED BY <1>2, <1>10, <1>11, <1>12, <1>13 DEF BotInv

(* What a row becomes when it still is as it was read *)
LEMMA EffectOfAnUpdate ==
  ASSUME BotTypeOK, NEW l \in Lists, NEW verb \in Verbs \ {"delete"},
         flags[l].archived => ~flags[l].active
  PROVE  LET row == Written(flags[l], Differing(l, verb)) IN row.archived => ~row.active
  <1>1. flags[l].active \in BOOLEAN /\ flags[l].archived \in BOOLEAN BY DEF BotTypeOK, Flags
  <1>2. None \notin BOOLEAN BY NoneIsNoValue
  <1>3. CASE verb = "pause" BY <1>1, <1>2, <1>3 DEF Written, Differing, Effect
  <1>4. CASE verb = "archive" BY <1>1, <1>2, <1>4 DEF Written, Differing, Effect
  <1>5. CASE verb \notin {"pause", "archive"}
    BY <1>1, <1>2, <1>5 DEF Written, Differing, Effect, Verbs
  <1> QED BY <1>3, <1>4, <1>5

(* Flags are written, and lists archived are gone for those that wait.      *)
LEMMA CommitUpdateKeeps ==
  ASSUME BotInv, NEW c \in Calls, CommitUpdate(c) PROVE BotInv'
  <1> DEFINE l == call[c].list
             row == Written(flags[l], call[c].sets)
             gone == IF flags'[l].archived THEN {l} ELSE {}
  <1>1. call[c] \in Request /\ call[c] # NoCall /\ call[c].verb \in Verbs \ {"delete"}
    <2>1. call[c] # NoCall BY DEF CommitUpdate, NoCall
    <2> QED BY <2>1 DEF BotInv, BotTypeOK, Request, CommitUpdate
  <1>2. l \in Lists /\ call[c].sets \in Sets BY <1>1 DEF Request
  <1>3. flags' = [flags EXCEPT ![l] = row] /\ shelf' = shelf BY DEF CommitUpdate
  <1>4. flags[l] \in Flags BY <1>2 DEF BotInv, BotTypeOK
  <1>5. row \in Flags
    <2>1. /\ flags[l].active \in BOOLEAN /\ flags[l].archived \in BOOLEAN
          /\ call[c].sets.active \in BOOLEAN \cup {None}
          /\ call[c].sets.archived \in BOOLEAN \cup {None}
      BY <1>2, <1>4 DEF Flags, Sets
    <2> QED BY <2>1 DEF Written, Flags
  <1>6. ~overlapped => (row.archived => ~row.active)
    <2> SUFFICES ASSUME ~overlapped PROVE row.archived => ~row.active OBVIOUS
    <2>1. call[c].sets = Differing(l, call[c].verb) /\ (flags[l].archived => ~flags[l].active)
      BY <1>1, <1>2 DEF BotInv, Unmet
    <2> QED BY <1>1, <1>2, <2>1, EffectOfAnUpdate DEF BotInv
  <1>7. Answer(c, call[c].verb, gone) BY DEF CommitUpdate
  <1>8. flags'[l] = row /\ \A k \in Lists \ {l} : flags'[k] = flags[k]
    BY <1>2, <1>3 DEF BotInv, BotTypeOK
  <1>9. flags' \in [Lists -> Flags] BY <1>3, <1>5 DEF BotInv, BotTypeOK
  <1>10. gone \in SUBSET Lists /\ call[c].verb \in Replies BY <1>1, <1>2 DEF Replies
  <1>11. \A k \in Lists : flags'[k].archived => flags[k].archived \/ k \in gone BY <1>8
  <1> HIDE DEF row, gone
  <1>12. ~overlapped => \A k \in Lists : flags'[k].archived => ~flags'[k].active
    BY <1>6, <1>8 DEF BotInv, Unmet
  <1> QED BY <1>1, <1>3, <1>7, <1>8, <1>9, <1>10, <1>11, <1>12, AnswerKeeps

(* An answer that writes nothing keeps what the others know.                *)
LEMMA PlainAnswerKeeps ==
  ASSUME BotInv, NEW c \in Calls, call[c] # NoCall, NEW text \in Replies,
         NEW gone \in SUBSET Lists, Answer(c, text, gone), UNCHANGED <<shelf, flags>>
  PROVE  BotInv'
  <1>1. flags' \in [Lists -> Flags] BY DEF BotInv, BotTypeOK
  <1>2. ~overlapped => \A k \in Lists : flags'[k].archived => ~flags'[k].active
    BY DEF BotInv, Unmet
  <1>3. \A k \in Lists : flags'[k].archived => flags[k].archived \/ k \in gone OBVIOUS
  <1>4. ~overlapped => \A k \in Lists \ {call[c].list} : flags'[k] = flags[k] OBVIOUS
  <1> QED BY <1>1, <1>2, <1>3, <1>4, AnswerKeeps

(* A list deleted is gone for those that wait.                              *)
LEMMA CommitDeleteKeeps ==
  ASSUME BotInv, NEW c \in Calls, CommitDelete(c) PROVE BotInv'
  <1>1. call[c] # NoCall BY NoneIsNoValue DEF CommitDelete, NoCall, Verbs
  <1>2. call[c].list \in Lists BY <1>1 DEF BotInv, BotTypeOK, Request
  <1>3. {call[c].list} \in SUBSET Lists /\ "deleted" \in Replies BY <1>2 DEF Replies
  <1> QED BY <1>1, <1>3, PlainAnswerKeeps DEF CommitDelete

(* A request that fails changes nothing.                                    *)
LEMMA FailKeeps == ASSUME BotInv, NEW c \in Calls, Fail(c) PROVE BotInv'
  <1>1. {} \in SUBSET Lists /\ "unavailable" \in Replies BY DEF Replies
  <1> QED BY <1>1, PlainAnswerKeeps DEF Fail

-----------------------------------------------------------------------------
(* Every step keeps BotInv.                                                 *)
LEMMA BotStep == BotInv /\ [BotNext]_botVars => BotInv'
  <1> SUFFICES ASSUME BotInv, [BotNext]_botVars PROVE BotInv' OBVIOUS
  <1>1. ASSUME NEW m \in Messages, ShowLists(m) \/ LookUp(m) \/ Refuse(m) \/ Drop(m)
        PROVE  BotInv'
    BY <1>1, ShowingKeeps, LookUpKeeps, RefusalKeeps
  <1>2. ASSUME NEW m \in Messages, NEW command \in {"pause", "resume", "archive"},
               NEW p \in Typed, Command(m, command, p)
        PROVE  BotInv'
    BY <1>2, CommandKeeps
  <1>3. ASSUME NEW m \in Messages, NEW c \in Calls, BotCalls(m, c) PROVE BotInv'
    BY <1>3, BotCallsKeeps
  <1>4. ASSUME NEW c \in Calls, CommitUpdate(c) \/ CommitDelete(c) \/ Fail(c) PROVE BotInv'
    BY <1>4, CommitUpdateKeeps, CommitDeleteKeeps, FailKeeps
  <1>5. ASSUME NEW c \in Calls, NEW verb \in {"pause", "archive", "restore", "delete"},
               NEW l \in Lists, WebCalls(c, verb, l)
        PROVE  BotInv'
    BY <1>5, WebCallsKeeps
  <1>6. ASSUME NEW l \in Lists, WebCreates(l) PROVE BotInv' BY <1>6, WebCreatesKeeps
  <1>7. CASE UNCHANGED botVars
    <2> USE <1>7 DEF botVars, BotInv
    <2>1. Newest(FindLimit)' = Newest(FindLimit) BY DEF Newest, Unarchived, Kept, Made
    <2>2. BotTypeOK' /\ ResumesSound' BY DEF BotTypeOK, ResumesSound
    <2>3. MessagesSound' BY <2>1 DEF MessagesSound, InHand, Meant
    <2>4. Unmet' BY DEF Unmet, Differing
    <2> QED BY <2>1, <2>2, <2>3, <2>4
  <1> QED BY <1>1, <1>2, <1>3, <1>4, <1>5, <1>6, <1>7 DEF BotNext

(* Only a look-up that finds nothing answers that there is no such list *)
LEMMA OnlyLookUpMisses ==
  ASSUME BotInv, [BotNext]_botVars, NEW m \in Messages,
         message[m].pc = "lookup", message'[m].reply = "unknown"
  PROVE  LookUp(m) /\ Named(message[m].typed) = {}
  <1>1. /\ message \in [Messages -> Message] /\ message[m] \in Message
        /\ message[m].reply = None /\ message[m].call = None
    BY DEF BotInv, BotTypeOK, MessagesSound, InHand
  <1>2. None # "unknown" /\ None \notin Calls BY NoneIsNoValue
  <1>3. message'[m] # message[m] BY <1>1, <1>2
  <1>4. ASSUME NEW n \in Messages, NEW x, message' = [message EXCEPT ![n] = x]
        PROVE  n = m
    BY <1>1, <1>3, <1>4
  <1>5. ASSUME NEW n \in Messages, LookUp(n)
        PROVE  LookUp(m) /\ Named(message[m].typed) = {}
    <2>1. n = m
      <3>1. CASE Cardinality(Named(message[n].typed)) = 1
        BY <1>1, <1>3, <1>5, <3>1 DEF LookUp
      <3>2. CASE Cardinality(Named(message[n].typed)) # 1
        BY <1>4, <1>5, <3>2 DEF LookUp, Replied
      <3> QED BY <3>1, <3>2
    <2>2. ASSUME Cardinality(Named(message[m].typed)) = 1 PROVE FALSE
      <3>1. PICK l : message' = [message EXCEPT ![m].pc = "call", ![m].found = l]
        BY <1>5, <2>1, <2>2 DEF LookUp
      <3>2. message'[m].reply = message[m].reply BY <1>1, <3>1 DEF Message
      <3> QED BY <1>1, <1>2, <3>2
    <2>3. ASSUME Named(message[m].typed) # {} PROVE FALSE
      <3>1. message' = Replied(m, "ambiguous") BY <1>5, <2>1, <2>2, <2>3 DEF LookUp
      <3>2. message'[m].reply = "ambiguous" BY <1>1, <3>1 DEF Replied, NoMessage
      <3> QED BY <3>2
    <2> QED BY <1>5, <2>1, <2>3
  <1>6. ASSUME NEW n \in Messages, Refuse(n) \/ Drop(n) PROVE FALSE
    <2>1. PICK text \in {"unavailable", None} : message' = Replied(n, text)
      BY <1>6 DEF Refuse, Drop
    <2>2. n = m BY <2>1, <1>4 DEF Replied
    <2>3. message'[m].reply = text BY <2>1, <2>2, <1>1 DEF Replied, NoMessage
    <2> QED BY <2>1, <2>3, <1>2
  <1>7. ASSUME NEW n \in Messages, ShowLists(n) PROVE FALSE BY <1>3, <1>7 DEF ShowLists
  <1>8. ASSUME NEW n \in Messages, NEW command, NEW p, Command(n, command, p) PROVE FALSE
    <2>1. n # m BY <1>8 DEF Command
    <2> QED BY <2>1, <1>4, <1>8 DEF Command
  <1>9. ASSUME NEW n \in Messages, NEW c \in Calls, BotCalls(n, c) PROVE FALSE
    <2>1. n # m BY <1>9 DEF BotCalls
    <2>2. message' = [message EXCEPT ![n].pc = "wait", ![n].call = c] BY <1>9 DEF BotCalls
    <2> QED BY <2>1, <2>2, <1>1, <1>3
  <1>10. ASSUME NEW c \in Calls, NEW text, NEW gone, Answer(c, text, gone) PROVE FALSE
    <2>1. message[m].call # c BY <1>1, <1>2
    <2>2. message'[m] = [message[m] EXCEPT !.gone = @ \/ message[m].found \in gone,
                                           !.meant = Remain(@)]
      BY <1>10, <2>1 DEF Answer
    <2>3. message'[m].reply = message[m].reply BY <1>1, <2>2 DEF Message
    <2> QED BY <1>1, <1>2, <2>3
  <1>11. ASSUME NEW l \in Lists, WebCreates(l) PROVE FALSE
    <2>1. message'[m] = [message[m] EXCEPT !.meant = Remain(@)] BY <1>11 DEF WebCreates
    <2>2. message'[m].reply = message[m].reply BY <1>1, <2>1 DEF Message
    <2> QED BY <1>1, <1>2, <2>2
  <1>12. ASSUME NEW c \in Calls, CommitUpdate(c) \/ CommitDelete(c) \/ Fail(c) PROVE FALSE
    BY <1>10, <1>12 DEF CommitUpdate, CommitDelete, Fail
  <1>13. ASSUME NEW c \in Calls, NEW verb, NEW l \in Lists, WebCalls(c, verb, l) PROVE FALSE
    BY <1>3, <1>13 DEF WebCalls
  <1>14. BotNext BY <1>3 DEF botVars
  <1> QED BY <1>5, <1>6, <1>7, <1>8, <1>9, <1>11, <1>12, <1>13, <1>14 DEF BotNext

(* Commands typed to the bot reach the list they are meant for and do to it *)
(* what they say, whatever the web app does to the lists meanwhile.         *)
THEOREM CommandsAreMeant == BotSpec => CommandsAsMeant
  <1>1. BotInv => RightList /\ ArchivedIsPaused
    BY DEF BotInv, BotTypeOK, MessagesSound, Meant, Unmet, RightList, ArchivedIsPaused, Kept, Made
  <1>2. BotInv /\ [BotNext]_botVars
          => \A m \in Messages :
                message[m].pc = "lookup" /\ message'[m].reply = "unknown"
                  => shown \cap Starts[message[m].typed] = {}
    BY OnlyLookUpMisses DEF Named, BotInv
  <1>3. BotInv
          => \A c \in Calls :
                call[c].verb = "resume" /\ call'[c] = NoCall
                /\ flags[call[c].list].archived /\ ~flags'[call[c].list].archived
                  => call[c].gone
    BY DEF BotInv, ResumesSound
  <1> QED BY <1>1, <1>2, <1>3, BotStarts, BotStep, PTL
        DEF BotSpec, CommandsAsMeant, ShownIsFound, ResumeIsNoRestore

=============================================================================
