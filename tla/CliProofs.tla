----------------------------- MODULE CliProofs ------------------------------
(***************************************************************************)
(* Theorems about CliSession, for every switch, every list of commands and *)
(* every size of the screen that SessionAssumption allows.                 *)
(***************************************************************************)
EXTENDS CliSession, OrderedProofs, FiniteSetTheorems, SequenceTheorems, TLAPS

-----------------------------------------------------------------------------
(* The invariant: what the variables hold, and who has been asked.         *)

\* A token of a row is about a row that the switch has.
TextToken ==
  {t \in Token : t.kind \in {"row", "deep", "bare"} =>
                   t.cmd \in Commands /\ t.at \in DOMAIN Rows[t.cmd]}

Text == Seq(TextToken)

TypeInv ==
  /\ rest \in Text /\ inq \in Text /\ buf \in Text
  /\ keys \in Seq(Commands \cup {Key}) /\ todo \in Seq(Commands)
  /\ keyed \in BOOLEAN /\ garbled \in BOOLEAN /\ listed \in BOOLEAN
  /\ quiet \in BOOLEAN /\ hits \in Nat /\ pc \in {"ready", "reading", "done"}
  /\ ports \subseteq Ports /\ DOMAIN caps \subseteq Commands
  /\ \A c \in DOMAIN caps : caps[c] \in Capture /\ caps[c].text \in Text

AskedOnce ==
  /\ \A i, j \in DOMAIN todo : todo[i] = todo[j] => i = j
  /\ \A i \in DOMAIN todo : todo[i] \notin DOMAIN caps

PortsAfterAll ==
  /\ ~listed => /\ ports = {}
                /\ \A c \in DOMAIN caps : c.port = None
                /\ \A i \in DOMAIN todo : todo[i].port = None
  /\ \A c \in DOMAIN caps : c.port \notin ports
  /\ \A i \in DOMAIN todo : todo[i].port \notin ports

KeyedAtPager == keyed => rest # << >> /\ Head(rest).kind = "erase"
ReadingACommand == pc = "reading" => todo # << >>

SessionInv == TypeInv /\ AskedOnce /\ PortsAfterAll /\ KeyedAtPager /\ ReadingACommand


-----------------------------------------------------------------------------
(* What the switch writes.                                                 *)

\* Commands are records of a key of the tables and a port, and no pager key.
LEMMA CommandsAre ==
  /\ Key \notin Commands
  /\ \A k \in ToSet(Globals) : [key |-> k, port |-> None] \in Commands
  /\ \A k \in ToSet(PerPort), p \in Ports : [key |-> k, port |-> p] \in Commands
  /\ \A c \in Commands : Rows[c] \in Seq(Row)
<1>1. ToSet(PerPort) \subseteq ToSet(Globals) /\ "g" \notin ToSet(Globals)
  BY SessionAssumption
<1>2. \A c \in GlobalCmds : c.key \in ToSet(Globals)
  BY DEF GlobalCmds
<1>3. \A c \in PortCmds : c.key \in ToSet(PerPort)
  BY DEF PortCmds
<1>4. \A c \in Commands : c.key \in ToSet(Globals)
  BY <1>1, <1>2, <1>3 DEF Commands
<1>5. Key.key = "g"
  BY DEF Key
<1>6. Key \notin Commands
  BY <1>1, <1>4, <1>5
<1>7. \A k \in ToSet(Globals) : [key |-> k, port |-> None] \in GlobalCmds
  BY DEF GlobalCmds
<1>8. \A k \in ToSet(PerPort), p \in Ports : [key |-> k, port |-> p] \in PortCmds
  BY DEF PortCmds
<1>9. \A c \in Commands : Rows[c] \in Seq(Row)
  BY SessionAssumption
<1> QED
  BY <1>6, <1>7, <1>8, <1>9 DEF Commands

\* A token made of a row tells the row.
LEMMA RowTokIs ==
  ASSUME NEW c \in Commands, NEW i \in DOMAIN Rows[c]
  PROVE  /\ RowTok(c, i) \in TextToken
         /\ RowTok(c, i).cmd = c /\ RowTok(c, i).at = i
         /\ RowTok(c, i).kind = IF Rows[c][i].deep THEN "deep" ELSE "row"
<1>1. Rows[c] \in Seq(Row)
  BY CommandsAre
<1>2. i \in Nat
  BY <1>1
<1>3. /\ RowTok(c, i).cmd = c /\ RowTok(c, i).at = i
      /\ RowTok(c, i).kind = IF Rows[c][i].deep THEN "deep" ELSE "row"
  BY DEF RowTok, Tok
<1>4. RowTok(c, i) \in Token
  BY <1>2 DEF RowTok, Tok, Token, Kinds
<1> QED
  BY <1>3, <1>4 DEF TextToken

\* The other tokens.
LEMMA TokIs ==
  ASSUME NEW k \in Kinds \ {"row", "deep", "bare"}, NEW c \in Commands \cup {NoCmd}
  PROVE  Tok(k, c, 0) \in TextToken /\ Tok(k, c, 0).kind = k /\ Tok(k, c, 0).cmd = c
<1>1. Tok(k, c, 0).kind = k /\ Tok(k, c, 0).cmd = c
  BY DEF Tok
<1>2. Tok(k, c, 0) \in Token
  BY DEF Tok, Token
<1> QED
  BY <1>1, <1>2 DEF TextToken

LEMMA AllRowsIs ==
  ASSUME NEW c \in Commands
  PROVE  /\ AllRows(c) \in Text /\ Len(AllRows(c)) = Len(Rows[c]) /\ Len(Rows[c]) \in Nat
         /\ DOMAIN Rows[c] = 1 .. Len(Rows[c])
         /\ \A i \in 1 .. Len(Rows[c]) : AllRows(c)[i] = RowTok(c, i)
<1>1. Rows[c] \in Seq(Row)
  BY CommandsAre
<1>2. DOMAIN Rows[c] = 1 .. Len(Rows[c]) /\ Len(Rows[c]) \in Nat
  BY <1>1
<1>3. AllRows(c) = [i \in 1 .. Len(Rows[c]) |-> RowTok(c, i)]
  BY <1>2 DEF AllRows
<1>4. \A i \in 1 .. Len(Rows[c]) : RowTok(c, i) \in TextToken
  BY <1>2, RowTokIs
<1> QED
  BY <1>2, <1>3, <1>4 DEF Text

LEMMA Framed ==
  ASSUME NEW S, NEW s \in Seq(S), NEW t \in S, NEW u \in S
  PROVE  LET f == (<<t>> \o s) \o <<u>>
         IN  /\ f \in Seq(S) /\ Len(f) = Len(s) + 2
             /\ f[1] = t /\ f[Len(s) + 2] = u
             /\ \A i \in 1 .. Len(s) : f[i + 1] = s[i]
<1> DEFINE a == <<t>>
           z == <<u>>
           g == a \o s
           f == g \o z
<1>1. /\ a \in Seq(S) /\ z \in Seq(S) /\ Len(a) = 1 /\ Len(z) = 1
      /\ a[1] = t /\ z[1] = u /\ Len(s) \in Nat
  OBVIOUS
<1> HIDE DEF a, z
<1>2. /\ g \in Seq(S) /\ Len(g) = 1 + Len(s)
      /\ \A i \in 1 .. 1 + Len(s) : g[i] = IF i <= 1 THEN a[i] ELSE s[i - 1]
  <2>1. /\ g \in Seq(S) /\ Len(g) = Len(a) + Len(s)
        /\ \A i \in 1 .. Len(a) + Len(s) : g[i] = IF i <= Len(a) THEN a[i] ELSE s[i - Len(a)]
    BY <1>1, ConcatProperties
  <2> HIDE DEF g
  <2> QED
    BY <1>1, <2>1
<1> HIDE DEF g
<1>3. /\ f \in Seq(S) /\ Len(f) = 1 + Len(s) + 1
      /\ \A i \in 1 .. 1 + Len(s) + 1 :
           f[i] = IF i <= 1 + Len(s) THEN g[i] ELSE z[i - (1 + Len(s))]
  BY <1>1, <1>2, ConcatProperties
<1> HIDE DEF f
<1>4. f[1] = t
  BY <1>1, <1>2, <1>3
<1>5. f[Len(s) + 2] = u
  BY <1>1, <1>3
<1>6. \A i \in 1 .. Len(s) : f[i + 1] = s[i]
  BY <1>1, <1>2, <1>3
<1>7. f = (<<t>> \o s) \o <<u>>
  BY DEF f, g, a, z
<1> QED
  BY <1>1, <1>3, <1>4, <1>5, <1>6, <1>7

LEMMA RefusalIs ==
  ASSUME NEW c \in Commands
  PROVE  /\ Refusal(c) \in Text /\ Len(Refusal(c)) = 3
         /\ Refusal(c)[1] = Tok("echo", c, 0) /\ Refusal(c)[2] = Tok("error", c, 0)
         /\ Refusal(c)[3] = Tok("prompt", NoCmd, 0)
<1> DEFINE s == <<Tok("error", c, 0)>>
<1>1. /\ Tok("echo", c, 0) \in TextToken /\ Tok("error", c, 0) \in TextToken
      /\ Tok("prompt", NoCmd, 0) \in TextToken
  BY TokIs DEF Kinds
<1>2. s \in Seq(TextToken) /\ Len(s) = 1 /\ s[1] = Tok("error", c, 0)
  BY <1>1
<1> DEFINE e == Tok("echo", c, 0)
           z == Tok("prompt", NoCmd, 0)
<1>3. Refusal(c) = (<<e>> \o s) \o <<z>> /\ e \in TextToken /\ z \in TextToken
  BY <1>1 DEF Refusal, Echo, Prompt
<1> HIDE DEF s, e, z
<1>4. /\ Refusal(c) \in Seq(TextToken) /\ Len(Refusal(c)) = Len(s) + 2
      /\ Refusal(c)[1] = e /\ Refusal(c)[Len(s) + 2] = z
      /\ \A i \in 1 .. Len(s) : Refusal(c)[i + 1] = s[i]
  BY <1>2, <1>3, Framed
<1>5. Refusal(c)[1 + 1] = s[1]
  BY <1>2, <1>4
<1> QED
  BY <1>2, <1>4, <1>5 DEF Text, e, z

\* The rows of an answer, with the pager between those of the first screen and
\* the others if there are others.
Body(c) ==
  LET r == AllRows(c) IN
  IF Len(r) <= Page THEN r
  ELSE (SubSeq(r, 1, Page) \o Pager) \o SubSeq(r, Page + 1, Len(r))

LEMMA BodyIs ==
  ASSUME NEW c \in Commands
  PROVE  /\ Body(c) \in Text
         /\ Len(Rows[c]) <= Page => Body(c) = AllRows(c)
         /\ Len(Rows[c]) > Page =>
              /\ Len(Body(c)) = Len(Rows[c]) + 3
              /\ \A i \in 1 .. Page : Body(c)[i] = RowTok(c, i)
              /\ Body(c)[Page + 1] = Tok("more", NoCmd, 0)
              /\ Body(c)[Page + 2] = Tok("tail", NoCmd, 0)
              /\ Body(c)[Page + 3] = Tok("erase", NoCmd, 0)
              /\ \A i \in Page + 1 .. Len(Rows[c]) : Body(c)[i + 3] = RowTok(c, i)
<1> DEFINE r == AllRows(c)
           m == Len(Rows[c])
           one == SubSeq(r, 1, Page)
           two == SubSeq(r, Page + 1, m)
           mid == one \o Pager
<1>1. /\ r \in Seq(TextToken) /\ Len(r) = m /\ m \in Nat
      /\ \A i \in 1 .. m : r[i] = RowTok(c, i) /\ r[i] \in TextToken
  <2>1. \A i \in 1 .. m : RowTok(c, i) \in TextToken
    BY AllRowsIs, RowTokIs
  <2> QED
    BY <2>1, AllRowsIs DEF Text
<1>2. Page \in Nat
  BY SessionAssumption
<1>3. CASE m <= Page
  <2>1. Body(c) = r
    BY <1>1, <1>3 DEF Body
  <2>2. ~(m > Page)
    BY <1>1, <1>2, <1>3
  <2> QED
    BY <2>1, <2>2, <1>1 DEF Text
<1>4. CASE m > Page
  <2>1. ~(m <= Page)
    BY <1>1, <1>2, <1>4
  <2>2. Body(c) = mid \o two
    BY <1>1, <2>1 DEF Body
  <2>3. /\ Pager \in Seq(TextToken) /\ Len(Pager) = 3 /\ Pager[1] = Tok("more", NoCmd, 0)
        /\ Pager[2] = Tok("tail", NoCmd, 0) /\ Pager[3] = Tok("erase", NoCmd, 0)
    <3>1. /\ Tok("more", NoCmd, 0) \in TextToken /\ Tok("tail", NoCmd, 0) \in TextToken
          /\ Tok("erase", NoCmd, 0) \in TextToken
      BY TokIs DEF Kinds
    <3> HIDE DEF Tok, NoCmd
    <3> QED
      BY <3>1 DEF Pager
  <2> HIDE DEF r, m
  <2>4. /\ one \in Seq(TextToken) /\ Len(one) = Page
        /\ \A i \in 1 .. Page : one[i] = r[i]
    <3>1. \A i \in 1 .. Page : r[i] \in TextToken
      BY <1>1, <1>2, <1>4
    <3>2. 1 \in Int /\ Page \in Int
      BY <1>2
    <3>3. /\ one \in Seq(TextToken) /\ Len(one) = IF 1 <= Page THEN Page - 1 + 1 ELSE 0
          /\ \A i \in 1 .. Page - 1 + 1 : one[i] = r[1 + i - 1]
      BY <3>1, <3>2, SubSeqProperties
    <3> QED
      BY <1>2, <3>3
  <2>5. /\ two \in Seq(TextToken) /\ Len(two) = m - Page
        /\ \A i \in 1 .. m - Page : two[i] = r[Page + i]
    <3>1. \A i \in Page + 1 .. m : r[i] \in TextToken
      BY <1>1, <1>2
    <3>2. Page + 1 \in Int /\ m \in Int
      BY <1>1, <1>2
    <3>3. /\ two \in Seq(TextToken)
          /\ Len(two) = IF Page + 1 <= m THEN m - (Page + 1) + 1 ELSE 0
          /\ \A i \in 1 .. m - (Page + 1) + 1 : two[i] = r[Page + 1 + i - 1]
      BY <3>1, <3>2, SubSeqProperties
    <3> QED
      BY <1>1, <1>2, <1>4, <3>3
  <2> HIDE DEF one, two
  <2>6. /\ mid \in Seq(TextToken) /\ Len(mid) = Page + 3
        /\ \A i \in 1 .. Page + 3 : mid[i] = IF i <= Page THEN one[i] ELSE Pager[i - Page]
    <3> HIDE DEF Pager, Tok, NoCmd
    <3>1. /\ one \o Pager \in Seq(TextToken) /\ Len(one \o Pager) = Len(one) + Len(Pager)
          /\ \A i \in 1 .. Len(one) + Len(Pager) :
               (one \o Pager)[i] = IF i <= Len(one) THEN one[i] ELSE Pager[i - Len(one)]
      BY <2>3, <2>4, ConcatProperties
    <3> QED
      BY <2>3, <2>4, <3>1
  <2> HIDE DEF mid
  <2>7. /\ Body(c) \in Seq(TextToken) /\ Len(Body(c)) = Page + 3 + (m - Page)
        /\ \A i \in 1 .. Page + 3 + (m - Page) :
             Body(c)[i] = IF i <= Page + 3 THEN mid[i] ELSE two[i - (Page + 3)]
    BY <2>2, <2>5, <2>6, ConcatProperties
  <2>8. Page + 3 + (m - Page) = m + 3
    BY <1>1, <1>2
  <2>9. \A i \in 1 .. Page : Body(c)[i] = RowTok(c, i)
    BY <1>1, <1>2, <1>4, <2>4, <2>6, <2>7, <2>8
  <2>10. /\ Body(c)[Page + 1] = Pager[1] /\ Body(c)[Page + 2] = Pager[2]
         /\ Body(c)[Page + 3] = Pager[3]
    <3>1. ASSUME NEW j \in 1 .. 3 PROVE Body(c)[Page + j] = Pager[j]
      <4>1. Page + j \in 1 .. m + 3 /\ Page + j <= Page + 3 /\ ~(Page + j <= Page)
            /\ Page + j \in 1 .. Page + 3 /\ (Page + j) - Page = j
        BY <1>1, <1>2, <1>4
      <4> QED
        BY <4>1, <2>6, <2>7, <2>8
    <3> QED
      BY <3>1
  <2>11. \A i \in Page + 1 .. m : Body(c)[i + 3] = RowTok(c, i)
    <3>1. SUFFICES ASSUME NEW i \in Page + 1 .. m PROVE Body(c)[i + 3] = RowTok(c, i)
      OBVIOUS
    <3>2. /\ i + 3 \in 1 .. m + 3 /\ ~(i + 3 <= Page + 3) /\ (i + 3) - (Page + 3) = i - Page
          /\ i - Page \in 1 .. m - Page /\ Page + (i - Page) = i /\ i \in 1 .. m
      BY <1>1, <1>2, <1>4
    <3>3. Body(c)[i + 3] = two[i - Page]
      BY <3>2, <2>7, <2>8
    <3> QED
      BY <1>1, <2>5, <3>2, <3>3
  <2> QED
    BY <1>1, <2>1, <2>3, <2>7, <2>8, <2>9, <2>10, <2>11 DEF Text, m, r
<1> QED
  BY <1>1, <1>2, <1>3, <1>4

\* Token by token, the answer to a command that the firmware has.
LEMMA AnswerIs ==
  ASSUME NEW c \in Commands
  PROVE  /\ Answer(c) \in Text
         /\ c \in Rejected => Answer(c) = Refusal(c)
         /\ c \notin Rejected =>
              /\ Len(Answer(c)) = Len(Body(c)) + 2
              /\ Answer(c)[1] = Tok("echo", c, 0)
              /\ Answer(c)[Len(Body(c)) + 2] = Tok("prompt", NoCmd, 0)
              /\ \A i \in 1 .. Len(Body(c)) : Answer(c)[i + 1] = Body(c)[i]
<1>1. CASE c \in Rejected
  BY <1>1, RefusalIs DEF Answer
<1>2. CASE c \notin Rejected
  <2>1. Answer(c) = (<<Tok("echo", c, 0)>> \o Body(c)) \o <<Tok("prompt", NoCmd, 0)>>
    BY <1>2 DEF Answer, Body, Echo, Prompt
  <2>2. Body(c) \in Seq(TextToken)
    BY BodyIs DEF Text
  <2>3. Tok("echo", c, 0) \in TextToken /\ Tok("prompt", NoCmd, 0) \in TextToken
    BY TokIs DEF Kinds
  <2>4. /\ Answer(c) \in Seq(TextToken) /\ Len(Answer(c)) = Len(Body(c)) + 2
        /\ Answer(c)[1] = Tok("echo", c, 0)
        /\ Answer(c)[Len(Body(c)) + 2] = Tok("prompt", NoCmd, 0)
        /\ \A i \in 1 .. Len(Body(c)) : Answer(c)[i + 1] = Body(c)[i]
    BY <2>1, <2>2, <2>3, Framed
  <2> QED
    BY <1>2, <2>4 DEF Text
<1> QED
  BY <1>1, <1>2

-----------------------------------------------------------------------------
(* What the client makes of it.                                            *)

\* Cleaning takes a row's blanks away and changes no token otherwise.
LEMMA ShownIs ==
  ASSUME NEW b \in Text, NEW j \in DOMAIN b
  PROVE  /\ Shown(b, j) \in TextToken
         /\ Shown(b, j) = b[j] \/ Shown(b, j).kind = "bare"
         /\ Residue(b) = {} \/ b[j].kind # "deep" => Shown(b, j) = b[j]
<1>1. b[j] \in TextToken /\ j \in Nat /\ j >= 1
  BY DEF Text
<1>2. b[j] \in Token
  BY <1>1 DEF TextToken
<1>3. CASE b[j].kind = "deep" /\ Stripped(b, j)
  <2> DEFINE t == [b[j] EXCEPT !.kind = "bare"]
  <2>1. Shown(b, j) = t
    BY <1>3 DEF Shown
  <2>2. t.kind = "bare" /\ t.cmd = b[j].cmd /\ t.at = b[j].at /\ t \in Token
    BY <1>2 DEF Token, Kinds
  <2> HIDE DEF t
  <2>3. b[j].cmd \in Commands /\ b[j].at \in DOMAIN Rows[b[j].cmd]
    BY <1>1, <1>3 DEF TextToken
  <2>4. t \in TextToken
    BY <2>2, <2>3 DEF TextToken
  <2>5. Residue(b) # {}
    BY <1>3 DEF Stripped
  <2> QED
    BY <1>3, <2>1, <2>2, <2>4, <2>5
<1>4. CASE ~(b[j].kind = "deep" /\ Stripped(b, j))
  <2>1. Shown(b, j) = b[j]
    BY <1>4 DEF Shown
  <2> QED
    BY <1>1, <2>1
<1> QED
  BY <1>3, <1>4

\* The positions that _clean keeps.
CleanAt(b, c) ==
  {j \in DOMAIN b : /\ j > After(b, c)
                    /\ ~(b[j].kind = "erase" /\ j \in Residue(b))
                    /\ \E k \in j .. Len(b) : b[k].kind # "prompt"}

LEMMA CleanIs ==
  ASSUME NEW b \in Text, NEW c
  PROVE  /\ Clean(b, c) \in Text
         /\ DOMAIN Clean(b, c) = DOMAIN InOrder(CleanAt(b, c))
         /\ DOMAIN Clean(b, c) = 1 .. Cardinality(CleanAt(b, c))
         /\ Cardinality(CleanAt(b, c)) \in Nat
         /\ \A i \in DOMAIN Clean(b, c) :
              /\ InOrder(CleanAt(b, c))[i] \in CleanAt(b, c)
              /\ Clean(b, c)[i] = Shown(b, InOrder(CleanAt(b, c))[i])
<1> DEFINE S == CleanAt(b, c)
           at == InOrder(S)
<1>1. Clean(b, c) = [i \in DOMAIN at |-> Shown(b, at[i])]
  BY DEF Clean, CleanAt
<1>2. DOMAIN b = 1 .. Len(b) /\ Len(b) \in Nat
  BY DEF Text
<1>3. S \subseteq 1 .. Len(b)
  BY <1>2 DEF CleanAt
<1>4. /\ DOMAIN at = 1 .. Cardinality(S) /\ Cardinality(S) \in Nat
      /\ \A k \in DOMAIN at : at[k] \in S
  BY <1>2, <1>3, InOrderLists
<1>5. \A k \in DOMAIN at : Shown(b, at[k]) \in TextToken
  BY <1>2, <1>3, <1>4, ShownIs
<1> HIDE DEF S, at
<1>6. Clean(b, c) \in Seq(TextToken)
  BY <1>1, <1>4, <1>5
<1> QED
  BY <1>1, <1>4, <1>6 DEF Text, S, at

\* The positions that stay when the pager's prompt is taken out.
WithoutAt(b) ==
  {j \in DOMAIN b : \A k \in 1 .. j : b[k].kind = "more" =>
                      \E e \in k .. j - 1 : b[e].kind \in EndsLine}

LEMMA WithoutMoreIs ==
  ASSUME NEW b \in Text
  PROVE  /\ WithoutMore(b) \in Text
         /\ DOMAIN WithoutMore(b) = DOMAIN InOrder(WithoutAt(b))
         /\ \A i \in DOMAIN WithoutMore(b) : WithoutMore(b)[i] = b[InOrder(WithoutAt(b))[i]]
<1> DEFINE S == WithoutAt(b)
           at == InOrder(S)
<1>1. WithoutMore(b) = [i \in DOMAIN at |-> b[at[i]]]
  BY DEF WithoutMore, WithoutAt
<1>2. DOMAIN b = 1 .. Len(b) /\ Len(b) \in Nat /\ \A j \in 1 .. Len(b) : b[j] \in TextToken
  BY DEF Text
<1>3. S \subseteq 1 .. Len(b)
  BY <1>2 DEF WithoutAt
<1>4. /\ DOMAIN at = 1 .. Cardinality(S) /\ Cardinality(S) \in Nat
      /\ \A k \in DOMAIN at : at[k] \in S
  BY <1>2, <1>3, InOrderLists
<1>5. \A k \in DOMAIN at : b[at[k]] \in TextToken
  BY <1>2, <1>3, <1>4
<1> HIDE DEF S, at
<1>6. WithoutMore(b) \in Seq(TextToken)
  BY <1>1, <1>4, <1>5
<1> QED
  BY <1>1, <1>6 DEF Text, S, at

\* Two pieces of text are a text.
LEMMA JoinIs ==
  ASSUME NEW b \in Text, NEW s \in Text
  PROVE  /\ b \o s \in Text /\ Len(b \o s) = Len(b) + Len(s)
         /\ Len(b) \in Nat /\ Len(s) \in Nat
         /\ \A i \in 1 .. Len(b) + Len(s) : (b \o s)[i] =
               IF i <= Len(b) THEN b[i] ELSE s[i - Len(b)]
<1>1. b \in Seq(TextToken) /\ s \in Seq(TextToken)
  BY DEF Text
<1>2. Len(b) \in Nat /\ Len(s) \in Nat
  BY <1>1
<1> QED
  BY <1>1, <1>2, ConcatProperties DEF Text

-----------------------------------------------------------------------------
(* The invariant is inductive.                                             *)

LEMMA SessionInit == Init => SessionInv
<1> SUFFICES ASSUME Init PROVE SessionInv
  OBVIOUS
<1> USE DEF Init
<1>1. Globals \in Seq(ToSet(Globals))
  BY SessionAssumption
<1>2. \A i \in DOMAIN Globals : Globals[i] \in ToSet(Globals)
  BY DEF ToSet
<1>3. \A i \in DOMAIN todo : todo[i] \in Commands /\ todo[i].port = None
  BY <1>2, CommandsAre
<1>4. todo \in Seq(Commands)
  <2>1. DOMAIN Globals = 1 .. Len(Globals) /\ Len(Globals) \in Nat
    BY <1>1
  <2>2. todo = [i \in 1 .. Len(Globals) |-> [key |-> Globals[i], port |-> None]]
    BY <2>1
  <2>3. \A i \in 1 .. Len(Globals) : [key |-> Globals[i], port |-> None] \in Commands
    BY <1>2, <2>1, CommandsAre
  <2> QED
    BY <2>1, <2>2, <2>3
<1>5. DOMAIN caps = {}
  OBVIOUS
<1>6. TypeInv
  <2>1. rest \in Text /\ inq \in Text /\ buf \in Text /\ keys \in Seq(Commands \cup {Key})
    BY EmptySeq DEF Text
  <2>2. keyed \in BOOLEAN /\ garbled \in BOOLEAN /\ listed \in BOOLEAN /\ quiet \in BOOLEAN
    OBVIOUS
  <2>3. hits \in Nat /\ pc \in {"ready", "reading", "done"} /\ ports \subseteq Ports
    OBVIOUS
  <2>4. DOMAIN caps \subseteq Commands
    BY <1>5
  <2>5. \A c \in DOMAIN caps : caps[c] \in Capture /\ caps[c].text \in Text
    BY <1>5
  <2> QED
    BY <1>4, <2>1, <2>2, <2>3, <2>4, <2>5 DEF TypeInv
<1>7. AskedOnce
  <2>1. \A i, j \in DOMAIN Globals : Globals[i] = Globals[j] => i = j
    BY SessionAssumption
  <2>2. \A i \in DOMAIN todo : i \in DOMAIN Globals /\ todo[i].key = Globals[i]
    OBVIOUS
  <2> QED
    BY <1>5, <2>1, <2>2 DEF AskedOnce
<1>8. PortsAfterAll
  BY <1>3, <1>5 DEF PortsAfterAll
<1> QED
  BY <1>6, <1>7, <1>8 DEF SessionInv, KeyedAtPager, ReadingACommand

\* The switch changes neither the captures nor what is to be asked.
Untouched == UNCHANGED <<pc, todo, listed, ports, caps>>

LEMMA UntouchedKeeps ==
  ASSUME SessionInv, Untouched
  PROVE  AskedOnce' /\ PortsAfterAll' /\ ReadingACommand'
  BY DEF SessionInv, Untouched, AskedOnce, PortsAfterAll, ReadingACommand

LEMMA HeadTail ==
  ASSUME NEW S, NEW s \in Seq(S), s # << >>
  PROVE  /\ Head(s) \in S /\ Tail(s) \in Seq(S) /\ Head(s) = s[1] /\ 1 \in DOMAIN s
         /\ Len(s) \in Nat /\ Len(s) >= 1 /\ DOMAIN s = 1 .. Len(s)
         /\ Len(Tail(s)) = Len(s) - 1 /\ DOMAIN Tail(s) = 1 .. Len(s) - 1
         /\ \A i \in 1 .. Len(s) - 1 : Tail(s)[i] = s[i + 1]
<1>1. Len(s) \in Nat /\ DOMAIN s = 1 .. Len(s) /\ Len(s) # 0
  OBVIOUS
<1>2. Head(s) \in S /\ Tail(s) \in Seq(S) /\ Len(Tail(s)) = Len(s) - 1
  BY HeadTailProperties
<1>3. \A i \in 1 .. Len(Tail(s)) : Tail(s)[i] = s[i + 1]
  BY HeadTailProperties
<1>4. Head(s) = s[1]
  OBVIOUS
<1>5. DOMAIN Tail(s) = 1 .. Len(Tail(s))
  BY <1>2
<1> QED
  BY <1>1, <1>2, <1>3, <1>4, <1>5

LEMMA DeliverKeeps ==
  ASSUME SessionInv, Deliver
  PROVE  SessionInv'
<1> USE DEF Deliver, SessionInv
<1>1. rest \in Seq(TextToken) /\ rest # << >> /\ inq \in Seq(TextToken)
  BY DEF TypeInv, Text
<1>2. Head(rest) \in TextToken /\ Tail(rest) \in Seq(TextToken)
  BY <1>1, HeadTail
<1>3. rest' \in Text /\ inq' \in Text
  BY <1>1, <1>2 DEF Text
<1>4. keyed' \in BOOLEAN /\ keyed' = FALSE
  BY <1>1 DEF AtPager, TypeInv, KeyedAtPager
<1>5. TypeInv'
  BY <1>3, <1>4 DEF TypeInv
<1>6. KeyedAtPager'
  BY <1>4 DEF KeyedAtPager
<1> QED
  BY <1>5, <1>6, UntouchedKeeps DEF Untouched

LEMMA TakeAtPagerKeeps ==
  ASSUME SessionInv, TakeAtPager
  PROVE  SessionInv'
<1> USE DEF TakeAtPager, SessionInv
<1>1. rest \in Text /\ rest # << >> /\ Head(rest).kind = "erase"
  BY DEF TypeInv, AtPager
<1>2. Head(keys) \in Commands \cup {Key} /\ Tail(keys) \in Seq(Commands \cup {Key})
  BY HeadTail DEF TypeInv
<1>3. rest' \in Text /\ rest' # << >> /\ Head(rest').kind = "erase"
  <2>1. CASE UNCHANGED rest
    BY <1>1, <2>1
  <2>2. CASE Head(keys) # Key /\ rest' = rest \o Refusal(Head(keys))
    <3> DEFINE r == Refusal(Head(keys))
    <3>1. r \in Text
      BY <1>2, <2>2, RefusalIs
    <3> HIDE DEF r
    <3>2. rest' = rest \o r
      BY <2>2 DEF r
    <3>3. /\ rest' \in Text /\ Len(rest') = Len(rest) + Len(r) /\ Len(rest) \in Nat
          /\ Len(r) \in Nat
          /\ \A i \in 1 .. Len(rest) + Len(r) : rest'[i] =
                IF i <= Len(rest) THEN rest[i] ELSE r[i - Len(rest)]
      BY <1>1, <3>1, <3>2, JoinIs
    <3>4. Len(rest) >= 1 /\ Head(rest) = rest[1]
      BY <1>1, HeadTail DEF Text
    <3>5. rest'[1] = rest[1] /\ Len(rest') # 0
      BY <3>3, <3>4
    <3>6. rest' # << >>
      BY <3>3, <3>5
    <3>7. Head(rest') = rest'[1]
      BY <3>3, <3>6, HeadTail DEF Text
    <3> QED
      BY <1>1, <3>3, <3>4, <3>5, <3>6, <3>7
  <2> QED
    BY <2>1, <2>2
<1>4. TypeInv'
  BY <1>2, <1>3 DEF TypeInv
<1>5. KeyedAtPager'
  BY <1>3 DEF KeyedAtPager
<1> QED
  BY <1>4, <1>5, UntouchedKeeps DEF Untouched

LEMMA TakeAtShellKeeps ==
  ASSUME SessionInv, TakeAtShell
  PROVE  SessionInv'
<1> USE DEF TakeAtShell, SessionInv
<1>1. Head(keys) \in Commands \cup {Key} /\ Tail(keys) \in Seq(Commands \cup {Key})
  BY HeadTail DEF TypeInv
<1>2. ~keyed /\ ~keyed'
  BY DEF KeyedAtPager
<1>3. rest' \in Text /\ garbled' \in BOOLEAN
  <2>1. CASE Head(keys) = Key
    BY <2>1 DEF TypeInv
  <2>2. CASE Head(keys) # Key
    <3>1. Head(keys) \in Commands
      BY <1>1, <2>2
    <3>2. Refusal(Head(keys)) \in Text /\ Answer(Head(keys)) \in Text
      BY <3>1, RefusalIs, AnswerIs
    <3> QED
      BY <2>2, <3>2
  <2> QED
    BY <2>1, <2>2
<1>4. TypeInv'
  BY <1>1, <1>3 DEF TypeInv
<1>5. KeyedAtPager'
  BY <1>2 DEF KeyedAtPager
<1> QED
  BY <1>4, <1>5, UntouchedKeeps DEF Untouched

\* What is captured of a command, and that the command is done with.
LEMMA RecordKeeps ==
  ASSUME SessionInv, todo # << >>, listed' = listed, ports' = ports,
         NEW k \in {"ok", "unsupported", "timeout"}, NEW t \in Text, NEW n \in BOOLEAN,
         Record(k, t, n)
  PROVE  /\ AskedOnce' /\ PortsAfterAll' /\ ReadingACommand'
         /\ todo' \in Seq(Commands) /\ pc' = "ready" /\ buf' = << >>
         /\ DOMAIN caps' \subseteq Commands
         /\ \A d \in DOMAIN caps' : caps'[d] \in Capture /\ caps'[d].text \in Text
         /\ DOMAIN caps' = DOMAIN caps \cup {Head(todo)}
         /\ caps'[Head(todo)] = [kind |-> k, text |-> t, note |-> n, quiet |-> quiet]
         /\ \A d \in DOMAIN caps : caps'[d] = caps[d]
<1> DEFINE c == Head(todo)
           x == [kind |-> k, text |-> t, note |-> n, quiet |-> quiet]
<1>1. caps' = Kept(c, x) /\ todo' = Tail(todo) /\ pc' = "ready" /\ buf' = << >>
  BY DEF Record
<1>2. /\ c \in Commands /\ c = todo[1] /\ 1 \in DOMAIN todo /\ todo' \in Seq(Commands)
      /\ DOMAIN todo' = 1 .. Len(todo) - 1 /\ DOMAIN todo = 1 .. Len(todo) /\ Len(todo) \in Nat
      /\ \A i \in 1 .. Len(todo) - 1 : todo'[i] = todo[i + 1]
  BY <1>1, HeadTail DEF SessionInv, TypeInv
<1>3. x \in Capture /\ x.text = t
  <2>1. t \in Seq(Token)
    <3>1. TextToken \subseteq Token
      BY DEF TextToken
    <3> QED
      BY <3>1, SeqMonotonic DEF Text
  <2>2. quiet \in BOOLEAN
    BY DEF SessionInv, TypeInv
  <2> QED
    BY <2>1, <2>2 DEF Capture
<1> HIDE DEF x, c
<1>4. /\ DOMAIN caps' = DOMAIN caps \cup {c} /\ caps'[c] = x
      /\ \A d \in DOMAIN caps : d # c => caps'[d] = caps[d]
  BY <1>1 DEF Kept
<1>5. c \notin DOMAIN caps
  BY <1>2 DEF SessionInv, AskedOnce
<1>6. \A d \in DOMAIN caps : caps'[d] = caps[d]
  BY <1>4, <1>5
<1>7. DOMAIN caps' \subseteq Commands
  BY <1>2, <1>4 DEF SessionInv, TypeInv
<1>8. \A d \in DOMAIN caps' : caps'[d] \in Capture /\ caps'[d].text \in Text
  BY <1>3, <1>4, <1>6 DEF SessionInv, TypeInv
<1>9. AskedOnce'
  <2>1. \A i \in DOMAIN todo' : i + 1 \in DOMAIN todo /\ i + 1 # 1 /\ todo'[i] = todo[i + 1]
                               /\ i \in Int
    BY <1>2
  <2>2. \A i \in DOMAIN todo : todo[i] = c => i = 1
    BY <1>2 DEF SessionInv, AskedOnce
  <2>3. ASSUME NEW i \in DOMAIN todo', NEW j \in DOMAIN todo', todo'[i] = todo'[j]
        PROVE  i = j
    <3>1. i + 1 = j + 1 /\ i \in Int /\ j \in Int
      BY <2>1, <2>3 DEF SessionInv, AskedOnce
    <3> QED
      BY <3>1
  <2>4. ASSUME NEW i \in DOMAIN todo' PROVE todo'[i] \notin DOMAIN caps'
    BY <1>4, <2>1, <2>2 DEF SessionInv, AskedOnce
  <2> QED
    BY <2>3, <2>4 DEF AskedOnce
<1>10. PortsAfterAll'
  <2>1. \A i \in DOMAIN todo' : i + 1 \in DOMAIN todo /\ todo'[i] = todo[i + 1]
    BY <1>2
  <2>2. \A i \in DOMAIN todo' : \E j \in DOMAIN todo : todo'[i] = todo[j]
    BY <2>1
  <2>3. c.port \notin ports /\ (~listed => c.port = None)
    BY <1>2 DEF SessionInv, PortsAfterAll
  <2> QED
    BY <1>4, <2>2, <2>3 DEF SessionInv, PortsAfterAll
<1> QED
  BY <1>1, <1>2, <1>4, <1>6, <1>7, <1>8, <1>9, <1>10 DEF ReadingACommand, c, x

LEMMA SendKeeps ==
  ASSUME SessionInv, Send
  PROVE  SessionInv'
<1> USE DEF Send, SessionInv, switch
<1>1. Head(todo) \in Commands
  BY HeadTail DEF TypeInv
<1>2. keys' \in Seq(Commands \cup {Key})
  BY <1>1 DEF TypeInv
<1>3. inq' \in Text /\ buf' \in Text
  BY EmptySeq DEF Text
<1>4. quiet' \in BOOLEAN
  OBVIOUS
<1>5. TypeInv'
  BY <1>2, <1>3, <1>4 DEF TypeInv
<1>6. AskedOnce' /\ PortsAfterAll' /\ KeyedAtPager' /\ ReadingACommand'
  BY DEF AskedOnce, PortsAfterAll, KeyedAtPager, ReadingACommand
<1> QED
  BY <1>5, <1>6

LEMMA SkipKeeps ==
  ASSUME SessionInv, Skip
  PROVE  SessionInv'
<1> USE DEF Skip, SessionInv, switch
<1>1. /\ todo' \in Seq(Commands)
      /\ DOMAIN todo' = 1 .. Len(todo) - 1 /\ DOMAIN todo = 1 .. Len(todo) /\ Len(todo) \in Nat
      /\ \A i \in 1 .. Len(todo) - 1 : todo'[i] = todo[i + 1]
  BY HeadTail DEF TypeInv
<1>2. TypeInv'
  BY <1>1 DEF TypeInv
<1>3. \A i \in DOMAIN todo' : i + 1 \in DOMAIN todo /\ todo'[i] = todo[i + 1] /\ i \in Int
  BY <1>1
<1>4. AskedOnce'
  <2>1. ASSUME NEW i \in DOMAIN todo', NEW j \in DOMAIN todo', todo'[i] = todo'[j]
        PROVE  i = j
    <3>1. i + 1 = j + 1 /\ i \in Int /\ j \in Int
      BY <1>3, <2>1 DEF AskedOnce
    <3> QED
      BY <3>1
  <2>2. \A i \in DOMAIN todo' : todo'[i] \notin DOMAIN caps'
    BY <1>3 DEF AskedOnce
  <2> QED
    BY <2>1, <2>2 DEF AskedOnce
<1>5. PortsAfterAll'
  <2>1. \A i \in DOMAIN todo' : \E j \in DOMAIN todo : todo'[i] = todo[j]
    BY <1>3
  <2> QED
    BY <2>1 DEF PortsAfterAll
<1> QED
  BY <1>2, <1>4, <1>5 DEF KeyedAtPager, ReadingACommand

LEMMA ReadMoreKeeps ==
  ASSUME SessionInv, ReadMore
  PROVE  SessionInv'
<1> USE DEF ReadMore, SessionInv, switch
<1>1. buf \o inq \in Text
  BY JoinIs DEF TypeInv
<1>2. WithoutMore(buf \o inq) \in Text
  BY <1>1, WithoutMoreIs
<1>3. buf' \in Text /\ inq' \in Text
  BY <1>2, EmptySeq DEF Text
<1>4. keys' \in Seq(Commands \cup {Key}) /\ hits' \in Nat
  BY DEF TypeInv
<1>5. TypeInv'
  BY <1>3, <1>4 DEF TypeInv
<1> QED
  BY <1>5, UntouchedKeeps DEF Untouched, KeyedAtPager

LEMMA ReadOnKeeps ==
  ASSUME SessionInv, ReadOn
  PROVE  SessionInv'
<1> USE DEF ReadOn, SessionInv, switch
<1>1. buf' \in Text /\ inq' \in Text
  BY JoinIs, EmptySeq DEF TypeInv, Text
<1>2. TypeInv'
  BY <1>1 DEF TypeInv
<1> QED
  BY <1>2, UntouchedKeeps DEF Untouched, KeyedAtPager

LEMMA ReadPromptKeeps ==
  ASSUME SessionInv, ReadPrompt
  PROVE  SessionInv'
<1> DEFINE b == buf \o inq
           t == Clean(b, Head(todo))
           k == IF LooksLikeCliError(t) THEN "unsupported" ELSE "ok"
           n == ResidueCount(b) # hits
<1> USE DEF SessionInv
<1>1. b \in Text
  BY JoinIs DEF TypeInv
<1>2. t \in Text
  BY <1>1, CleanIs
<1>3. k \in {"ok", "unsupported", "timeout"} /\ n \in BOOLEAN /\ Record(k, t, n)
  BY DEF ReadPrompt
<1>4. todo # << >> /\ listed' = listed /\ ports' = ports
  BY DEF ReadPrompt, ReadingACommand
<1> HIDE DEF t, k, n, b
<1>5. /\ AskedOnce' /\ PortsAfterAll' /\ ReadingACommand'
      /\ todo' \in Seq(Commands) /\ pc' = "ready" /\ buf' = << >>
      /\ DOMAIN caps' \subseteq Commands
      /\ \A d \in DOMAIN caps' : caps'[d] \in Capture /\ caps'[d].text \in Text
  BY <1>2, <1>3, <1>4, RecordKeeps
<1>6. /\ inq' = << >> /\ UNCHANGED <<rest, keyed, garbled, keys, listed, ports, hits, quiet>>
  BY DEF ReadPrompt, switch
<1>7. buf' \in Text /\ inq' \in Text
  BY <1>5, <1>6, EmptySeq DEF Text
<1>8. TypeInv'
  BY <1>5, <1>6, <1>7 DEF TypeInv
<1> QED
  BY <1>5, <1>6, <1>8 DEF KeyedAtPager

LEMMA TimeoutKeeps ==
  ASSUME SessionInv, Timeout
  PROVE  SessionInv'
<1> USE DEF SessionInv
<1>1. << >> \in Text
  BY EmptySeq DEF Text
<1>2. todo # << >> /\ listed' = listed /\ ports' = ports
  BY DEF Timeout, ReadingACommand
<1>3. Record("timeout", << >>, FALSE)
  BY DEF Timeout
<1>4. /\ AskedOnce' /\ PortsAfterAll' /\ ReadingACommand'
      /\ todo' \in Seq(Commands) /\ pc' = "ready" /\ buf' = << >>
      /\ DOMAIN caps' \subseteq Commands
      /\ \A d \in DOMAIN caps' : caps'[d] \in Capture /\ caps'[d].text \in Text
  BY <1>1, <1>2, <1>3, RecordKeeps
<1>5. UNCHANGED <<rest, keyed, garbled, keys, inq, listed, ports, hits, quiet>>
  BY DEF Timeout, switch
<1>6. TypeInv'
  BY <1>1, <1>4, <1>5 DEF TypeInv
<1> QED
  BY <1>4, <1>5, <1>6 DEF KeyedAtPager

\* The interfaces that are asked are interfaces of the switch.
LEMMA ListedPortsAre ==
  ASSUME TypeInv
  PROVE  ListedPorts \subseteq Ports
<1>1. SUFFICES ASSUME NEW t \in InterfaceRows, Rows[t.cmd][t.at].port # None
               PROVE  Rows[t.cmd][t.at].port \in Ports
  BY DEF ListedPorts
<1> DEFINE c == [key |-> ListKey, port |-> None]
<1>2. c \in DOMAIN caps /\ t \in {caps[c].text[j] : j \in DOMAIN caps[c].text}
      /\ t.kind \in {"row", "bare"}
  BY DEF InterfaceRows
<1>3. caps[c].text \in Seq(TextToken)
  BY <1>2 DEF TypeInv, Text
<1>4. t \in TextToken
  BY <1>2, <1>3
<1>5. t.cmd \in Commands /\ t.at \in DOMAIN Rows[t.cmd]
  BY <1>2, <1>4 DEF TextToken
<1>6. Rows[t.cmd][t.at] \in Row
  BY <1>5, CommandsAre
<1> QED
  BY <1>1, <1>6 DEF Row

LEMMA ListPortsKeeps ==
  ASSUME SessionInv, ListPorts
  PROVE  SessionInv'
<1> USE DEF ListPorts, SessionInv, switch
<1>1. ports' \subseteq Ports /\ None \notin ports'
  BY ListedPortsAre DEF ListedPorts
<1>2. TypeInv'
  BY <1>1 DEF TypeInv
<1>3. PortsAfterAll'
  <2>1. DOMAIN todo = {}
    OBVIOUS
  <2>2. \A c \in DOMAIN caps : c.port = None
    BY DEF PortsAfterAll
  <2> QED
    BY <1>1, <2>1, <2>2 DEF PortsAfterAll
<1> QED
  BY <1>2, <1>3 DEF AskedOnce, KeyedAtPager, ReadingACommand

LEMMA AskPortKeeps ==
  ASSUME SessionInv, NEW p \in ports, AskPort(p)
  PROVE  SessionInv'
<1> USE DEF AskPort, SessionInv, switch
<1>1. p \in Ports
  BY DEF TypeInv
<1>2. /\ DOMAIN PerPort = 1 .. Len(PerPort) /\ Len(PerPort) \in Nat
      /\ \A k \in DOMAIN PerPort : PerPort[k] \in ToSet(PerPort)
  BY SessionAssumption DEF ToSet
<1>3. \A k \in DOMAIN PerPort : [key |-> PerPort[k], port |-> p] \in Commands
  BY <1>1, <1>2, CommandsAre
<1>4. /\ DOMAIN todo' = DOMAIN PerPort
      /\ \A k \in DOMAIN todo' : todo'[k].key = PerPort[k] /\ todo'[k].port = p
  OBVIOUS
<1>5. todo' \in Seq(Commands)
  BY <1>2, <1>3
<1>6. TypeInv'
  BY <1>5 DEF TypeInv
<1>7. AskedOnce'
  <2>1. \A i, j \in DOMAIN PerPort : PerPort[i] = PerPort[j] => i = j
    BY SessionAssumption
  <2>2. \A c \in DOMAIN caps : c.port # p
    BY DEF PortsAfterAll
  <2> QED
    BY <1>4, <2>1, <2>2 DEF AskedOnce
<1>8. PortsAfterAll'
  <2>1. listed /\ listed'
    BY DEF PortsAfterAll, TypeInv
  <2>2. \A c \in DOMAIN caps' : c.port \notin ports'
    BY DEF PortsAfterAll
  <2>3. \A i \in DOMAIN todo' : todo'[i].port \notin ports'
    BY <1>4
  <2> QED
    BY <2>1, <2>2, <2>3 DEF PortsAfterAll
<1> QED
  BY <1>6, <1>7, <1>8 DEF KeyedAtPager, ReadingACommand

LEMMA SessionStep ==
  ASSUME SessionInv, [Next]_vars
  PROVE  SessionInv'
<1>1. CASE Asking
  <2>1. CASE Finish
    BY <2>1, UntouchedKeeps DEF Finish, SessionInv, TypeInv, AskedOnce, PortsAfterAll,
                                KeyedAtPager, ReadingACommand, switch
  <2> QED
    BY <1>1, <2>1, SendKeeps, SkipKeeps, ListPortsKeeps, AskPortKeeps DEF Asking
<1>2. CASE Reading
  BY <1>2, ReadMoreKeeps, ReadOnKeeps, ReadPromptKeeps DEF Reading
<1>3. CASE UNCHANGED vars
  BY <1>3 DEF vars, switch, SessionInv, TypeInv, AskedOnce, PortsAfterAll, KeyedAtPager,
              ReadingACommand
<1> QED
  BY <1>1, <1>2, <1>3, DeliverKeeps, TakeAtPagerKeeps, TakeAtShellKeeps, TimeoutKeeps DEF Next

\* What the variables hold, that only interfaces of the switch are asked, and
\* that no command is run that has been captured (collect runs each once).
THEOREM TypeCorrect == Spec => []TypeOK
<1>1. SessionInv => TypeOK
  <2>1. Text \subseteq Seq(Token)
    <3>1. TextToken \subseteq Token
      BY DEF TextToken
    <3> QED
      BY <3>1, SeqMonotonic DEF Text
  <2> QED
    BY <2>1 DEF SessionInv, TypeInv, AskedOnce, TypeOK
<1> QED
  BY <1>1, SessionInit, SessionStep, PTL DEF Spec

-----------------------------------------------------------------------------
(* Answers, token by token.                                                *)

Paged(c) == c \notin Rejected /\ Len(Rows[c]) > Page

LEMMA ShortAnswer ==
  ASSUME NEW c \in Commands, c \notin Rejected, ~Paged(c)
  PROVE  /\ Len(Answer(c)) = Len(Rows[c]) + 2
         /\ Answer(c)[1] = Tok("echo", c, 0)
         /\ \A i \in 1 .. Len(Rows[c]) : Answer(c)[i + 1] = RowTok(c, i)
         /\ Answer(c)[Len(Rows[c]) + 2] = Tok("prompt", NoCmd, 0)
<1>1. Len(Rows[c]) \in Nat /\ Page \in Nat /\ Len(Rows[c]) <= Page
  BY AllRowsIs, SessionAssumption DEF Paged
<1>2. Body(c) = AllRows(c) /\ Len(Body(c)) = Len(Rows[c])
  BY <1>1, BodyIs, AllRowsIs
<1>3. \A i \in 1 .. Len(Rows[c]) : AllRows(c)[i] = RowTok(c, i)
  BY AllRowsIs
<1> QED
  BY <1>1, <1>2, <1>3, AnswerIs

LEMMA PagedAnswer ==
  ASSUME NEW c \in Commands, Paged(c)
  PROVE  LET n == Len(Rows[c]) IN
         /\ n \in Nat /\ Page \in Nat /\ Page >= 1 /\ n > Page
         /\ Len(Answer(c)) = n + 5 /\ Answer(c) \in Text
         /\ Answer(c)[1] = Tok("echo", c, 0)
         /\ \A i \in 1 .. Page : Answer(c)[i + 1] = RowTok(c, i)
         /\ Answer(c)[Page + 2] = Tok("more", NoCmd, 0)
         /\ Answer(c)[Page + 3] = Tok("tail", NoCmd, 0)
         /\ Answer(c)[Page + 4] = Tok("erase", NoCmd, 0)
         /\ \A i \in Page + 1 .. n : Answer(c)[i + 4] = RowTok(c, i)
         /\ Answer(c)[n + 5] = Tok("prompt", NoCmd, 0)
<1> DEFINE n == Len(Rows[c])
           B == Body(c)
           A == Answer(c)
<1>1. n \in Nat /\ Page \in Nat /\ Page >= 1 /\ n > Page /\ c \notin Rejected
  BY AllRowsIs, SessionAssumption DEF Paged
<1>2. /\ Len(B) = n + 3
      /\ \A i \in 1 .. Page : B[i] = RowTok(c, i)
      /\ B[Page + 1] = Tok("more", NoCmd, 0)
      /\ B[Page + 2] = Tok("tail", NoCmd, 0)
      /\ B[Page + 3] = Tok("erase", NoCmd, 0)
      /\ \A i \in Page + 1 .. n : B[i + 3] = RowTok(c, i)
  BY <1>1, BodyIs
<1>3. /\ A \in Text /\ Len(A) = Len(B) + 2 /\ A[1] = Tok("echo", c, 0)
      /\ A[Len(B) + 2] = Tok("prompt", NoCmd, 0)
      /\ \A i \in 1 .. Len(B) : A[i + 1] = B[i]
  BY <1>1, AnswerIs
<1> HIDE DEF n, A, B
<1>4. Len(A) = n + 5 /\ A[n + 5] = Tok("prompt", NoCmd, 0)
  BY <1>1, <1>2, <1>3
<1>5. \A i \in 1 .. n + 3 : A[i + 1] = B[i]
  BY <1>2, <1>3
<1>6. \A i \in 1 .. Page : A[i + 1] = RowTok(c, i)
  BY <1>1, <1>2, <1>5
<1>7. A[Page + 2] = Tok("more", NoCmd, 0)
  <2>1. Page + 1 \in 1 .. n + 3 /\ (Page + 1) + 1 = Page + 2
    BY <1>1
  <2> QED
    BY <1>2, <1>5, <2>1
<1>8. A[Page + 3] = Tok("tail", NoCmd, 0)
  <2>1. Page + 2 \in 1 .. n + 3 /\ (Page + 2) + 1 = Page + 3
    BY <1>1
  <2> QED
    BY <1>2, <1>5, <2>1
<1>9. A[Page + 4] = Tok("erase", NoCmd, 0)
  <2>1. Page + 3 \in 1 .. n + 3 /\ (Page + 3) + 1 = Page + 4
    BY <1>1
  <2> QED
    BY <1>2, <1>5, <2>1
<1>10. \A i \in Page + 1 .. n : A[i + 4] = RowTok(c, i)
  <2>1. SUFFICES ASSUME NEW i \in Page + 1 .. n PROVE A[i + 4] = RowTok(c, i)
    OBVIOUS
  <2>2. i + 3 \in 1 .. n + 3 /\ (i + 3) + 1 = i + 4
    BY <1>1
  <2> QED
    BY <1>2, <1>5, <2>2
<1> QED
  BY <1>1, <1>3, <1>4, <1>6, <1>7, <1>8, <1>9, <1>10 DEF n, A

\* The answer to c, but for the first d tokens of the pager.
Skipping(c, d) ==
  [i \in 1 .. Len(Answer(c)) - d |-> Answer(c)[IF i <= Page + 1 THEN i ELSE i + d]]

LEMMA SkippingIs ==
  ASSUME NEW c \in Commands, Paged(c), NEW d \in {1, 2}
  PROVE  LET n == Len(Rows[c]) IN
         /\ Len(Skipping(c, d)) = n + 5 - d /\ Skipping(c, d) \in Text
         /\ Skipping(c, d)[1] = Tok("echo", c, 0)
         /\ \A i \in 1 .. Page : Skipping(c, d)[i + 1] = RowTok(c, i)
         /\ d = 1 => Skipping(c, d)[Page + 2] = Tok("tail", NoCmd, 0)
         /\ Skipping(c, d)[Page + 4 - d] = Tok("erase", NoCmd, 0)
         /\ \A i \in Page + 1 .. n : Skipping(c, d)[i + 4 - d] = RowTok(c, i)
         /\ Skipping(c, d)[n + 5 - d] = Tok("prompt", NoCmd, 0)
         /\ \A i \in 1 .. n + 5 - d :
               Skipping(c, d)[i] = Answer(c)[IF i <= Page + 1 THEN i ELSE i + d]
<1> DEFINE n == Len(Rows[c])
           A == Answer(c)
           s == Skipping(c, d)
<1>1. /\ n \in Nat /\ Page \in Nat /\ Page >= 1 /\ n > Page
      /\ Len(A) = n + 5 /\ A \in Seq(TextToken)
      /\ A[1] = Tok("echo", c, 0)
      /\ \A i \in 1 .. Page : A[i + 1] = RowTok(c, i)
      /\ A[Page + 3] = Tok("tail", NoCmd, 0)
      /\ A[Page + 4] = Tok("erase", NoCmd, 0)
      /\ \A i \in Page + 1 .. n : A[i + 4] = RowTok(c, i)
      /\ A[n + 5] = Tok("prompt", NoCmd, 0)
  BY PagedAnswer DEF Text
<1>2. s = [i \in 1 .. n + 5 - d |-> A[IF i <= Page + 1 THEN i ELSE i + d]]
  BY <1>1 DEF Skipping
<1> HIDE DEF n, A, s
<1>3. \A i \in 1 .. n + 5 - d : s[i] = A[IF i <= Page + 1 THEN i ELSE i + d]
  BY <1>2
<1>4. s \in Seq(TextToken) /\ Len(s) = n + 5 - d
  <2>1. ASSUME NEW i \in 1 .. n + 5 - d
        PROVE  A[IF i <= Page + 1 THEN i ELSE i + d] \in TextToken
    <3>1. (IF i <= Page + 1 THEN i ELSE i + d) \in 1 .. Len(A)
      BY <1>1
    <3> QED
      BY <1>1, <3>1
  <2>2. n + 5 - d \in Nat
    BY <1>1
  <2> QED
    BY <1>2, <2>1, <2>2
<1>5. s[1] = Tok("echo", c, 0)
  <2>1. 1 \in 1 .. n + 5 - d /\ 1 <= Page + 1
    BY <1>1
  <2> QED
    BY <1>1, <1>3, <2>1
<1>6. \A i \in 1 .. Page : s[i + 1] = RowTok(c, i)
  <2>1. SUFFICES ASSUME NEW i \in 1 .. Page PROVE s[i + 1] = RowTok(c, i)
    OBVIOUS
  <2>2. i + 1 \in 1 .. n + 5 - d /\ i + 1 <= Page + 1
    BY <1>1
  <2> QED
    BY <1>1, <1>3, <2>2
<1>7. d = 1 => s[Page + 2] = Tok("tail", NoCmd, 0)
  <2>1. Page + 2 \in 1 .. n + 5 - d /\ ~(Page + 2 <= Page + 1) /\ (Page + 2) + 1 = Page + 3
    BY <1>1
  <2> QED
    BY <1>1, <1>3, <2>1
<1>8. s[Page + 4 - d] = Tok("erase", NoCmd, 0)
  <2>1. /\ Page + 4 - d \in 1 .. n + 5 - d /\ ~(Page + 4 - d <= Page + 1)
        /\ (Page + 4 - d) + d = Page + 4
    BY <1>1
  <2> QED
    BY <1>1, <1>3, <2>1
<1>9. \A i \in Page + 1 .. n : s[i + 4 - d] = RowTok(c, i)
  <2>1. SUFFICES ASSUME NEW i \in Page + 1 .. n PROVE s[i + 4 - d] = RowTok(c, i)
    OBVIOUS
  <2>2. /\ i + 4 - d \in 1 .. n + 5 - d /\ ~(i + 4 - d <= Page + 1)
        /\ (i + 4 - d) + d = i + 4
    BY <1>1
  <2> QED
    BY <1>1, <1>3, <2>2
<1>10. s[n + 5 - d] = Tok("prompt", NoCmd, 0)
  <2>1. /\ n + 5 - d \in 1 .. n + 5 - d /\ ~(n + 5 - d <= Page + 1)
        /\ (n + 5 - d) + d = n + 5
    BY <1>1
  <2> QED
    BY <1>1, <1>3, <2>1
<1> QED
  BY <1>3, <1>4, <1>5, <1>6, <1>7, <1>8, <1>9, <1>10 DEF n, A, s, Text

\* Where which kind of token stands.
LEMMA RowKind ==
  ASSUME NEW c \in Commands, NEW i \in 1 .. Len(Rows[c])
  PROVE  RowTok(c, i).kind \in {"row", "deep"}
  BY RowTokIs, AllRowsIs

LEMMA FixedKinds ==
  ASSUME NEW c \in Commands
  PROVE  /\ Tok("echo", c, 0).kind = "echo" /\ Tok("error", c, 0).kind = "error"
         /\ Tok("prompt", NoCmd, 0).kind = "prompt" /\ Tok("more", NoCmd, 0).kind = "more"
         /\ Tok("tail", NoCmd, 0).kind = "tail" /\ Tok("erase", NoCmd, 0).kind = "erase"
  BY DEF Tok

LEMMA UnpagedKinds ==
  ASSUME NEW c \in Commands, ~Paged(c), NEW j \in 1 .. Len(Answer(c))
  PROVE  /\ Answer(c)[j].kind \notin {"more", "erase", "bare"}
         /\ Answer(c)[j].kind = "prompt" => j = Len(Answer(c))
         /\ c \notin Rejected => Answer(c)[j].kind # "error"
<1>1. CASE c \in Rejected
  <2>1. /\ Answer(c) = Refusal(c) /\ Len(Refusal(c)) = 3
        /\ Refusal(c)[1].kind = "echo" /\ Refusal(c)[2].kind = "error"
        /\ Refusal(c)[3].kind = "prompt"
    BY <1>1, AnswerIs, RefusalIs, FixedKinds
  <2>2. j = 1 \/ j = 2 \/ j = 3
    BY <2>1
  <2> QED
    BY <1>1, <2>1, <2>2
<1>2. CASE c \notin Rejected
  <2> DEFINE n == Len(Rows[c])
             A == Answer(c)
  <2>1. n \in Nat
    BY AllRowsIs
  <2>2. /\ Len(A) = n + 2 /\ A[1].kind = "echo" /\ A[n + 2].kind = "prompt"
    BY <1>2, ShortAnswer, FixedKinds
  <2>3. \A i \in 1 .. n : A[i + 1].kind \in {"row", "deep"}
    BY <1>2, ShortAnswer, RowKind
  <2> HIDE DEF n, A
  <2>4. j \in 1 .. Len(A)
    BY DEF A
  <2>5. j = 1 \/ j = n + 2 \/ (j - 1 \in 1 .. n /\ (j - 1) + 1 = j)
    BY <2>1, <2>2, <2>4
  <2>6. A[j].kind \in {"row", "deep"} \/ (j = 1 /\ A[j].kind = "echo") \/ j = n + 2
    BY <2>2, <2>3, <2>5
  <2> QED
    BY <2>2, <2>6 DEF A
<1> QED
  BY <1>1, <1>2

LEMMA PagedKinds ==
  ASSUME NEW c \in Commands, Paged(c), NEW j \in 1 .. Len(Answer(c))
  PROVE  /\ Answer(c)[j].kind = "more" <=> j = Page + 2
         /\ Answer(c)[j].kind = "erase" <=> j = Page + 4
         /\ Answer(c)[j].kind = "prompt" <=> j = Len(Answer(c))
         /\ Answer(c)[j].kind = "tail" <=> j = Page + 3
         /\ Answer(c)[j].kind \notin {"error", "bare"}
<1> DEFINE n == Len(Rows[c])
           A == Answer(c)
<1>1. n \in Nat /\ Page \in Nat /\ Page >= 1 /\ n > Page /\ Len(A) = n + 5
  BY PagedAnswer
<1>2. /\ A[1].kind = "echo" /\ A[Page + 2].kind = "more" /\ A[Page + 3].kind = "tail"
      /\ A[Page + 4].kind = "erase" /\ A[n + 5].kind = "prompt"
  BY PagedAnswer, FixedKinds
<1>3. \A i \in 1 .. Page : A[i + 1].kind \in {"row", "deep"}
  BY <1>1, PagedAnswer, RowKind
<1>4. \A i \in Page + 1 .. n : A[i + 4].kind \in {"row", "deep"}
  BY <1>1, PagedAnswer, RowKind
<1> HIDE DEF n, A
<1>5. j \in 1 .. Len(A)
  BY DEF A
<1>6. \/ j \in {1, Page + 2, Page + 3, Page + 4, n + 5}
      \/ j - 1 \in 1 .. Page /\ (j - 1) + 1 = j
      \/ j - 4 \in Page + 1 .. n /\ (j - 4) + 4 = j
  BY <1>1, <1>5
<1>7. CASE j \in {1, Page + 2, Page + 3, Page + 4, n + 5}
  BY <1>1, <1>2, <1>7 DEF A
<1>8. CASE j \notin {1, Page + 2, Page + 3, Page + 4, n + 5}
  <2>1. A[j].kind \in {"row", "deep"}
    BY <1>3, <1>4, <1>6, <1>8
  <2> QED
    BY <1>1, <1>8, <2>1 DEF A
<1> QED
  BY <1>7, <1>8

LEMMA SkippingKinds ==
  ASSUME NEW c \in Commands, Paged(c), NEW d \in {1, 2}, NEW j \in 1 .. Len(Skipping(c, d))
  PROVE  /\ Skipping(c, d)[j].kind \notin {"more", "error", "bare"}
         /\ Skipping(c, d)[j].kind = "erase" <=> j = Page + 4 - d
         /\ Skipping(c, d)[j].kind = "prompt" <=> j = Len(Skipping(c, d))
<1> DEFINE n == Len(Rows[c])
           A == Answer(c)
           s == Skipping(c, d)
           i == IF j <= Page + 1 THEN j ELSE j + d
<1>1. n \in Nat /\ Page \in Nat /\ Page >= 1 /\ n > Page /\ Len(A) = n + 5
  BY PagedAnswer
<1>2. Len(s) = n + 5 - d /\ s[j] = A[i]
  BY SkippingIs
<1>3. i \in 1 .. Len(A)
  BY <1>1, <1>2
<1>4. /\ A[i].kind = "more" <=> i = Page + 2
      /\ A[i].kind = "erase" <=> i = Page + 4
      /\ A[i].kind = "prompt" <=> i = Len(A)
      /\ A[i].kind \notin {"error", "bare"}
  BY <1>3, PagedKinds
<1>5. /\ i # Page + 2 /\ (i = Page + 4 <=> j = Page + 4 - d) /\ (i = n + 5 <=> j = n + 5 - d)
  <2>1. j \in Nat /\ j >= 1 /\ j <= n + 5 - d
    BY <1>1, <1>2
  <2> HIDE DEF n
  <2>2. CASE j <= Page + 1
    BY <1>1, <2>1, <2>2
  <2>3. CASE ~(j <= Page + 1)
    BY <1>1, <2>1, <2>3
  <2> QED
    BY <2>2, <2>3
<1> HIDE DEF i, s, A
<1>6. /\ s[j].kind \notin {"more", "error", "bare"}
      /\ s[j].kind = "erase" <=> j = Page + 4 - d
      /\ s[j].kind = "prompt" <=> j = Len(s)
  BY <1>1, <1>2, <1>4, <1>5
<1> QED
  BY <1>6 DEF s

-----------------------------------------------------------------------------
(* A command typed on a quiet line: what has arrived and what is to come.  *)

\* g and r are text s in two pieces.
Cut(s, g, r) ==
  /\ Len(g) + Len(r) = Len(s)
  /\ \A i \in 1 .. Len(g) : g[i] = s[i]
  /\ \A i \in 1 .. Len(r) : r[i] = s[Len(g) + i]

\* The command has been typed and not been read by the switch.
Typed(c) ==
  /\ keys = <<c>> /\ rest = << >> /\ inq = << >> /\ buf = << >>
  /\ hits = 0 /\ ~garbled /\ ~keyed

\* It is being answered, up to the pager if there is one.
Flowing(c) ==
  /\ keys = << >> /\ hits = 0 /\ ~keyed
  /\ Cut(Answer(c), buf \o inq, rest)
  /\ Paged(c) => Len(buf \o inq) <= Page + 3

\* The pager has been answered when its prompt was seen; by then the rest of
\* its line had arrived (d = 2) or had not (d = 1).
Resumed(c, d) ==
  /\ Paged(c) /\ hits = 1
  /\ Cut(Skipping(c, d), buf \o inq, rest)
  /\ Len(buf \o inq) >= Page + 1
  /\ \/ keys = <<Key>> /\ ~keyed /\ Len(buf \o inq) < Page + 4 - d
     \/ keys = << >> /\ keyed /\ Len(buf \o inq) = Page + 3 - d
     \/ keys = << >> /\ ~keyed /\ Len(buf \o inq) >= Page + 4 - d

Answered(c) == Typed(c) \/ Flowing(c) \/ \E d \in {1, 2} : Resumed(c, d)
QuietInv == pc = "reading" /\ quiet => Answered(Head(todo))

\* One token more has arrived.
LEMMA CutDelivered ==
  ASSUME NEW s \in Text, NEW b \in Text, NEW q \in Text, NEW r \in Text, r # << >>,
         Cut(s, b \o q, r)
  PROVE  /\ Cut(s, b \o Append(q, Head(r)), Tail(r))
         /\ Len(b \o Append(q, Head(r))) = Len(b \o q) + 1
         /\ Len(b \o q) \in Nat /\ Len(b \o q) + 1 \in 1 .. Len(s)
         /\ Head(r) = s[Len(b \o q) + 1]
<1> DEFINE g == b \o q
           p == Append(q, Head(r))
           h == b \o p
           m == Len(g)
<1>1. /\ g \in Text /\ m = Len(b) + Len(q) /\ m \in Nat /\ Len(b) \in Nat /\ Len(q) \in Nat
      /\ \A i \in 1 .. Len(b) + Len(q) : g[i] = IF i <= Len(b) THEN b[i] ELSE q[i - Len(b)]
  BY JoinIs
<1>2. /\ Head(r) \in TextToken /\ Tail(r) \in Text /\ Head(r) = r[1] /\ Len(r) \in Nat
      /\ Len(r) >= 1 /\ Len(Tail(r)) = Len(r) - 1
      /\ \A i \in 1 .. Len(r) - 1 : Tail(r)[i] = r[i + 1]
  BY HeadTail DEF Text
<1>3. /\ p \in Text /\ Len(p) = Len(q) + 1 /\ p[Len(q) + 1] = Head(r)
      /\ \A i \in 1 .. Len(q) : p[i] = q[i]
  BY <1>2 DEF Text
<1> HIDE DEF p, g
<1>4. /\ h \in Text /\ Len(h) = Len(b) + Len(p)
      /\ \A i \in 1 .. Len(b) + Len(p) : h[i] = IF i <= Len(b) THEN b[i] ELSE p[i - Len(b)]
  BY <1>3, JoinIs
<1> HIDE DEF h
<1>5. Len(h) = m + 1
  BY <1>1, <1>3, <1>4
<1>6. \A i \in 1 .. m : h[i] = g[i]
  <2>1. SUFFICES ASSUME NEW i \in 1 .. m PROVE h[i] = g[i]
    OBVIOUS
  <2>2. CASE i <= Len(b)
    BY <1>1, <1>3, <1>4, <2>2
  <2>3. CASE ~(i <= Len(b))
    <3>1. i - Len(b) \in 1 .. Len(q) /\ i \in 1 .. Len(b) + Len(p) /\ i \in 1 .. Len(b) + Len(q)
      BY <1>1, <1>3, <2>3
    <3> QED
      BY <1>1, <1>3, <1>4, <2>3, <3>1
  <2> QED
    BY <2>2, <2>3
<1>7. h[m + 1] = Head(r)
  <2>1. /\ m + 1 \in 1 .. Len(b) + Len(p) /\ ~(m + 1 <= Len(b))
        /\ (m + 1) - Len(b) = Len(q) + 1
    BY <1>1, <1>3
  <2> QED
    BY <1>3, <1>4, <2>1
<1>8. /\ m + Len(r) = Len(s)
      /\ \A i \in 1 .. m : g[i] = s[i]
      /\ \A i \in 1 .. Len(r) : r[i] = s[m + i]
  BY DEF Cut, g
<1> HIDE DEF m
<1>9. Head(r) = s[m + 1] /\ m + 1 \in 1 .. Len(s)
  BY <1>1, <1>2, <1>8
<1>10. \A i \in 1 .. m + 1 : h[i] = s[i]
  <2>1. \A i \in 1 .. m + 1 : i \in 1 .. m \/ i = m + 1
    <3>1. m \in Nat
      BY <1>1
    <3> QED
      BY <3>1
  <2> QED
    BY <1>6, <1>7, <1>8, <1>9, <2>1
<1>11. \A i \in 1 .. Len(r) - 1 : Tail(r)[i] = s[m + 1 + i]
  <2>1. SUFFICES ASSUME NEW i \in 1 .. Len(r) - 1 PROVE Tail(r)[i] = s[m + 1 + i]
    OBVIOUS
  <2>2. i + 1 \in 1 .. Len(r) /\ m + (i + 1) = m + 1 + i
    BY <1>1, <1>2
  <2> QED
    BY <1>2, <1>8, <2>2
<1>12. Cut(s, h, Tail(r))
  BY <1>1, <1>2, <1>5, <1>8, <1>10, <1>11 DEF Cut
<1> QED
  BY <1>1, <1>5, <1>9, <1>12 DEF h, p, g, m

\* What has arrived is the same when it has been read.
LEMMA ReadIsJoined ==
  ASSUME NEW b \in Text, NEW q \in Text
  PROVE  (b \o q) \o << >> = b \o q
  BY JoinIs, ConcatEmptySeq DEF Text

\* Taking the prompt of the pager out leaves what stands before it.
LEMMA WithoutPager ==
  ASSUME NEW c \in Commands, Paged(c), NEW b \in Text, NEW d \in {1, 2},
         Len(b) = Page + 1 + d, \A i \in 1 .. Len(b) : b[i] = Answer(c)[i]
  PROVE  /\ WithoutMore(b) \in Text /\ Len(WithoutMore(b)) = Page + 1
         /\ \A i \in 1 .. Page + 1 : WithoutMore(b)[i] = b[i]
<1> DEFINE n == Len(Rows[c])
           S == WithoutAt(b)
<1>1. n \in Nat /\ Page \in Nat /\ Page >= 1 /\ n > Page /\ Len(Answer(c)) = n + 5
  BY PagedAnswer
<1>2. DOMAIN b = 1 .. Page + 1 + d
  BY DEF Text
<1>3. \A j \in 1 .. Page + 1 + d : j \in 1 .. Len(Answer(c))
  BY <1>1
<1>4. \A j \in 1 .. Page + 1 + d : b[j].kind = "more" <=> j = Page + 2
  <2>1. SUFFICES ASSUME NEW j \in 1 .. Page + 1 + d PROVE b[j].kind = "more" <=> j = Page + 2
    OBVIOUS
  <2>2. Answer(c)[j].kind = "more" <=> j = Page + 2
    BY <1>3, PagedKinds
  <2> QED
    BY <2>2
<1> HIDE DEF n
<1>5. S = 1 .. Page + 1
  <2>1. ASSUME NEW j \in 1 .. Page + 1 PROVE j \in S
    <3>1. \A k \in 1 .. j : k \in 1 .. Page + 1 + d /\ k # Page + 2
      BY <1>1
    <3>2. \A k \in 1 .. j : b[k].kind # "more"
      BY <1>4, <3>1
    <3>3. j \in 1 .. Page + 1 + d
      BY <1>1
    <3> QED
      BY <1>2, <3>2, <3>3 DEF WithoutAt
  <2>2. ASSUME NEW j \in S PROVE j \in 1 .. Page + 1
    <3>1. j \in 1 .. Page + 1 + d
      BY <1>2 DEF WithoutAt
    <3>2. SUFFICES ASSUME j \notin 1 .. Page + 1 PROVE FALSE
      OBVIOUS
    <3>3. /\ Page + 2 \in 1 .. j /\ Page + 2 \in 1 .. Page + 1 + d
          /\ \A e \in Page + 2 .. j - 1 : e = Page + 2
      BY <1>1, <3>1, <3>2
    <3>4. b[Page + 2].kind = "more"
      BY <1>4, <3>3
    <3>5. PICK e \in Page + 2 .. j - 1 : b[e].kind \in EndsLine
      BY <3>3, <3>4 DEF WithoutAt
    <3>6. b[e].kind = "more"
      BY <3>3, <3>4
    <3> QED
      BY <3>5, <3>6 DEF EndsLine
  <2> QED
    BY <2>1, <2>2
<1>6. Page + 1 \in Nat /\ Cardinality(S) = Page + 1
  BY <1>1, <1>5, FS_Interval
<1> HIDE DEF S
<1>7. \A i \in 1 .. Page + 1 : InOrder(S)[i] = i
  BY <1>5, <1>6, InOrderAll
<1>8. DOMAIN InOrder(S) = 1 .. Page + 1
  BY <1>5, <1>6, InOrderLists
<1>9. /\ WithoutMore(b) \in Text /\ DOMAIN WithoutMore(b) = DOMAIN InOrder(S)
      /\ \A i \in DOMAIN WithoutMore(b) : WithoutMore(b)[i] = b[InOrder(S)[i]]
  BY WithoutMoreIs DEF S
<1>10. Len(WithoutMore(b)) = Page + 1
  BY <1>6, <1>8, <1>9 DEF Text
<1> QED
  BY <1>7, <1>8, <1>9, <1>10

LEMMA AnsweredDelivers ==
  ASSUME SessionInv, NEW c \in Commands, Answered(c), Deliver
  PROVE  Answered(c)'
<1> DEFINE m == Len(buf \o inq)
<1>1. rest \in Text /\ rest # << >> /\ inq \in Text /\ buf \in Text /\ keyed \in BOOLEAN
  BY DEF Deliver, SessionInv, TypeInv
<1>2. /\ inq' = Append(inq, Head(rest)) /\ rest' = Tail(rest) /\ buf' = buf /\ keys' = keys
      /\ hits' = hits /\ (keyed' = TRUE) = (keyed /\ Head(rest).kind # "erase")
      /\ (Head(rest).kind = "erase" => keyed)
  BY <1>1 DEF Deliver, AtPager
<1>3. keyed => Head(rest).kind = "erase"
  BY DEF SessionInv, KeyedAtPager
<1>4. ~keyed'
  BY <1>2, <1>3 DEF Deliver
<1>5. CASE Typed(c)
  BY <1>1, <1>5 DEF Typed
<1>6. CASE Flowing(c)
  <2>1. /\ Cut(Answer(c), buf \o inq, rest) /\ Answer(c) \in Text
        /\ keys = << >> /\ hits = 0 /\ ~keyed /\ (Paged(c) => m <= Page + 3)
    BY <1>6, AnswerIs DEF Flowing
  <2>2. /\ Cut(Answer(c), (buf \o inq)', rest') /\ Len((buf \o inq)') = m + 1 /\ m \in Nat
        /\ m + 1 \in 1 .. Len(Answer(c)) /\ Head(rest) = Answer(c)[m + 1]
    BY <1>1, <1>2, <2>1, CutDelivered
  <2>3. ASSUME Paged(c) PROVE m + 1 <= Page + 3
    <3>1. m + 1 # Page + 4
      BY <1>2, <2>1, <2>2, <2>3, PagedKinds
    <3>2. Page \in Nat
      BY SessionAssumption
    <3> HIDE DEF m
    <3> QED
      BY <2>1, <2>2, <2>3, <3>1, <3>2
  <2>4. Flowing(c)'
    BY <1>2, <1>4, <2>1, <2>2, <2>3 DEF Flowing
  <2> QED
    BY <2>4 DEF Answered
<1>7. CASE \E d \in {1, 2} : Resumed(c, d)
  <2>1. PICK d \in {1, 2} : Resumed(c, d)
    BY <1>7
  <2>2. Paged(c) /\ hits = 1 /\ m >= Page + 1 /\ Cut(Skipping(c, d), buf \o inq, rest)
        /\ \/ keys = <<Key>> /\ ~keyed /\ m < Page + 4 - d
           \/ keys = << >> /\ keyed /\ m = Page + 3 - d
           \/ keys = << >> /\ ~keyed /\ m >= Page + 4 - d
    BY <2>1 DEF Resumed
  <2>3. Skipping(c, d) \in Text
    BY <2>2, SkippingIs
  <2>4. /\ Cut(Skipping(c, d), (buf \o inq)', rest') /\ Len((buf \o inq)') = m + 1 /\ m \in Nat
        /\ m + 1 \in 1 .. Len(Skipping(c, d)) /\ Head(rest) = Skipping(c, d)[m + 1]
    BY <1>1, <1>2, <2>2, <2>3, CutDelivered
  <2>5. Head(rest).kind = "erase" <=> m + 1 = Page + 4 - d
    BY <2>2, <2>4, SkippingKinds
  <2>6. Page \in Nat
    BY SessionAssumption
  <2> HIDE DEF m
  <2>7. m + 1 >= Page + 1
    BY <2>2, <2>4, <2>6
  <2>8. \/ keys = <<Key>> /\ m + 1 < Page + 4 - d
        \/ keys = << >> /\ m + 1 >= Page + 4 - d
    <3>1. CASE keys = <<Key>> /\ ~keyed /\ m < Page + 4 - d
      <4>1. m + 1 # Page + 4 - d
        BY <1>2, <2>5, <3>1
      <4> QED
        BY <2>4, <2>6, <3>1, <4>1
    <3>2. CASE keys = << >> /\ keyed /\ m = Page + 3 - d
      BY <2>4, <2>6, <3>2
    <3>3. CASE keys = << >> /\ ~keyed /\ m >= Page + 4 - d
      BY <2>4, <2>6, <3>3
    <3> QED
      BY <2>2, <3>1, <3>2, <3>3
  <2>9. Resumed(c, d)'
    BY <1>2, <1>4, <2>2, <2>4, <2>7, <2>8 DEF Resumed
  <2> QED
    BY <2>9 DEF Answered
<1> QED
  BY <1>5, <1>6, <1>7 DEF Answered

LEMMA AnsweredAtPager ==
  ASSUME SessionInv, NEW c \in Commands, Answered(c), TakeAtPager
  PROVE  Answered(c)'
<1> DEFINE m == Len(buf \o inq)
<1>1. /\ rest # << >> /\ Head(rest).kind = "erase" /\ ~keyed /\ keys # << >>
      /\ keyed' = TRUE /\ keys' = Tail(keys) /\ buf' = buf /\ inq' = inq /\ hits' = hits
  BY DEF TakeAtPager, AtPager
<1>2. ~Typed(c) /\ ~Flowing(c)
  BY <1>1 DEF Typed, Flowing
<1>3. PICK d \in {1, 2} : Resumed(c, d)
  BY <1>2 DEF Answered
<1>4. /\ Paged(c) /\ hits = 1 /\ m >= Page + 1 /\ Cut(Skipping(c, d), buf \o inq, rest)
      /\ keys = <<Key>> /\ m < Page + 4 - d
  BY <1>1, <1>3 DEF Resumed
<1>5. Head(keys) = Key /\ Tail(keys) = << >>
  BY <1>4
<1>6. rest' = rest /\ keys' = << >>
  BY <1>1, <1>5 DEF TakeAtPager
<1>7. /\ Head(rest) = Skipping(c, d)[m + 1] /\ m + 1 \in 1 .. Len(Skipping(c, d)) /\ m \in Nat
  <2>1. rest \in Text /\ inq \in Text /\ buf \in Text /\ Skipping(c, d) \in Text
    BY <1>4, SkippingIs DEF SessionInv, TypeInv
  <2> QED
    BY <1>1, <1>4, <2>1, CutDelivered
<1>8. m + 1 = Page + 4 - d
  BY <1>1, <1>4, <1>7, SkippingKinds
<1>9. Page \in Nat
  BY SessionAssumption
<1>10. m = Page + 3 - d /\ (buf \o inq)' = buf \o inq
  BY <1>1, <1>7, <1>8, <1>9
<1>11. Resumed(c, d)'
  BY <1>1, <1>4, <1>6, <1>10 DEF Resumed
<1> QED
  BY <1>11 DEF Answered

LEMMA AnsweredAtShell ==
  ASSUME SessionInv, NEW c \in Commands, Answered(c), TakeAtShell
  PROVE  Answered(c)'
<1>1. /\ rest = << >> /\ keys # << >> /\ keys' = Tail(keys)
      /\ keyed' = keyed /\ buf' = buf /\ inq' = inq /\ hits' = hits
  BY DEF TakeAtShell
<1>2. CASE Typed(c)
  <2>1. Head(keys) = c /\ Tail(keys) = << >> /\ c # Key
    BY <1>2, CommandsAre DEF Typed
  <2>2. rest' = Answer(c) /\ keys' = << >>
    BY <1>1, <1>2, <2>1 DEF TakeAtShell, Typed
  <2>3. buf' = << >> /\ inq' = << >> /\ hits' = 0 /\ ~keyed'
    BY <1>1, <1>2 DEF Typed
  <2>4. (buf \o inq)' = << >> /\ Len(<< >>) = 0
    <3>1. << >> \o << >> = << >>
      BY EmptySeq, ConcatEmptySeq
    <3> QED
      BY <2>3, <3>1
  <2>5. Cut(Answer(c), << >>, Answer(c))
    <3>1. Answer(c) \in Text
      BY AnswerIs
    <3>2. Len(Answer(c)) \in Nat
      BY <3>1 DEF Text
    <3> QED
      BY <2>4, <3>2 DEF Cut
  <2>6. Page \in Nat
    BY SessionAssumption
  <2>7. Flowing(c)'
    BY <2>2, <2>3, <2>4, <2>5, <2>6 DEF Flowing
  <2> QED
    BY <2>7 DEF Answered
<1>3. ~Flowing(c)
  BY <1>1 DEF Flowing
<1>4. ASSUME NEW d \in {1, 2}, Resumed(c, d) PROVE FALSE
  <2>1. /\ Paged(c) /\ Cut(Skipping(c, d), buf \o inq, rest)
        /\ Len(buf \o inq) < Page + 4 - d
    BY <1>1, <1>4 DEF Resumed
  <2>2. Len(buf \o inq) + 0 = Len(Skipping(c, d))
    BY <1>1, <2>1 DEF Cut
  <2>3. Len(Skipping(c, d)) = Len(Rows[c]) + 5 - d
    BY <2>1, SkippingIs
  <2>4. Len(Rows[c]) \in Nat /\ Page \in Nat /\ Len(Rows[c]) > Page
    BY <2>1, PagedAnswer
  <2>5. Len(buf \o inq) \in Nat
    BY JoinIs DEF SessionInv, TypeInv
  <2> QED
    BY <2>1, <2>2, <2>3, <2>4, <2>5
<1> QED
  BY <1>2, <1>3, <1>4 DEF Answered

\* A pager prompt in what has arrived is the first and only one.
LEMMA AnsweredReadsMore ==
  ASSUME SessionInv, NEW c \in Commands, Answered(c), ReadMore
  PROVE  Answered(c)'
<1> DEFINE b == buf \o inq
           m == Len(b)
<1>1. /\ inq # << >> /\ HasMore(b) /\ buf' = WithoutMore(b) /\ inq' = << >>
      /\ hits' = hits + 1 /\ keys' = Append(keys, Key) /\ rest' = rest /\ keyed' = keyed
  BY DEF ReadMore, switch
<1>2. b \in Text /\ m \in Nat /\ DOMAIN b = 1 .. m
  <2>1. b \in Text
    BY JoinIs DEF SessionInv, TypeInv
  <2> QED
    BY <2>1 DEF Text
<1>3. PICK j \in 1 .. m : b[j].kind = "more"
  BY <1>1, <1>2 DEF HasMore
<1>4. ~Typed(c)
  BY <1>1 DEF Typed
<1>5. ASSUME NEW d \in {1, 2}, Resumed(c, d) PROVE FALSE
  <2>1. Paged(c) /\ Cut(Skipping(c, d), b, rest)
    BY <1>5 DEF Resumed
  <2>2. rest \in Text /\ Len(rest) \in Nat
    BY DEF SessionInv, TypeInv, Text
  <2> HIDE DEF b
  <2>3. j \in 1 .. Len(Skipping(c, d)) /\ b[j] = Skipping(c, d)[j]
    BY <1>2, <2>1, <2>2 DEF Cut
  <2> QED
    BY <1>3, <2>1, <2>3, SkippingKinds
<1>6. /\ keys = << >> /\ hits = 0 /\ ~keyed /\ Cut(Answer(c), b, rest)
      /\ (Paged(c) => m <= Page + 3)
  BY <1>4, <1>5 DEF Answered, Flowing
<1>7. rest \in Text /\ Len(rest) \in Nat
  BY DEF SessionInv, TypeInv, Text
<1> HIDE DEF b
<1>8. /\ j \in 1 .. Len(Answer(c)) /\ m + Len(rest) = Len(Answer(c))
      /\ \A i \in 1 .. m : b[i] = Answer(c)[i]
      /\ \A i \in 1 .. Len(rest) : rest[i] = Answer(c)[m + i]
  BY <1>2, <1>6, <1>7 DEF Cut
<1>9. Paged(c)
  BY <1>3, <1>8, UnpagedKinds
<1>10. j = Page + 2 /\ Page \in Nat
  BY <1>3, <1>8, <1>9, PagedKinds, PagedAnswer
<1> HIDE DEF m
<1>11. m = Page + 2 \/ m = Page + 3
  BY <1>2, <1>6, <1>9, <1>10
<1>12. PICK d \in {1, 2} : m = Page + 1 + d
  BY <1>10, <1>11
<1>13. /\ buf' \in Text /\ Len(buf') = Page + 1
       /\ \A i \in 1 .. Page + 1 : buf'[i] = b[i]
  BY <1>1, <1>2, <1>8, <1>9, <1>12, WithoutPager DEF m
<1>14. (buf \o inq)' = buf'
  <2>1. buf' \o << >> = buf'
    BY <1>13, ConcatEmptySeq DEF Text
  <2> QED
    BY <1>1, <2>1
<1>15. Cut(Skipping(c, d), buf', rest')
  <2>1. /\ Len(Answer(c)) = Len(Rows[c]) + 5 /\ Len(Rows[c]) \in Nat /\ Len(Rows[c]) > Page
        /\ Len(Skipping(c, d)) = Len(Rows[c]) + 5 - d
        /\ \A i \in 1 .. Len(Rows[c]) + 5 - d :
              Skipping(c, d)[i] = Answer(c)[IF i <= Page + 1 THEN i ELSE i + d]
    BY <1>9, PagedAnswer, SkippingIs
  <2>2. Len(buf') + Len(rest') = Len(Skipping(c, d))
    <3>1. Page + 1 + d + Len(rest) = Len(Rows[c]) + 5 /\ Len(buf') = Page + 1
      BY <1>8, <1>12, <1>13, <2>1
    <3>2. Len(rest') = Len(rest)
      BY <1>1
    <3>3. Page + 1 + Len(rest) = Len(Rows[c]) + 5 - d
      BY <1>7, <1>10, <2>1, <3>1
    <3> QED
      BY <2>1, <3>1, <3>2, <3>3
  <2>3. ASSUME NEW i \in 1 .. Page + 1 PROVE buf'[i] = Skipping(c, d)[i]
    <3>1. i \in 1 .. m /\ i <= Page + 1 /\ i \in 1 .. Len(Rows[c]) + 5 - d
      BY <1>10, <1>12, <2>1
    <3> QED
      BY <1>8, <1>13, <2>1, <3>1
  <2>4. ASSUME NEW i \in 1 .. Len(rest) PROVE rest[i] = Skipping(c, d)[Page + 1 + i]
    <3>1. /\ Page + 1 + i \in 1 .. Len(Rows[c]) + 5 - d /\ ~(Page + 1 + i <= Page + 1)
          /\ (Page + 1 + i) + d = m + i
      BY <1>7, <1>8, <1>10, <1>12, <2>1
    <3> QED
      BY <1>8, <2>1, <3>1
  <2> QED
    BY <1>1, <1>13, <2>2, <2>3, <2>4 DEF Cut
<1>16. Len(buf') >= Page + 1 /\ Len(buf') < Page + 4 - d
  BY <1>10, <1>13
<1>17. keys' = <<Key>> /\ hits' = 1 /\ ~keyed'
  BY <1>1, <1>6
<1>18. Resumed(c, d)'
  BY <1>9, <1>14, <1>15, <1>16, <1>17 DEF Resumed
<1> QED
  BY <1>18 DEF Answered

LEMMA AnsweredReadsOn ==
  ASSUME SessionInv, NEW c \in Commands, Answered(c), ReadOn
  PROVE  Answered(c)'
<1>1. /\ inq # << >> /\ buf' = buf \o inq /\ inq' = << >>
      /\ UNCHANGED <<rest, keyed, keys, hits>>
  BY DEF ReadOn, switch
<1>2. (buf \o inq)' = buf \o inq
  <2>1. (buf \o inq) \o << >> = buf \o inq
    BY ReadIsJoined DEF SessionInv, TypeInv
  <2> QED
    BY <1>1, <2>1
<1>3. ~Typed(c)
  BY <1>1 DEF Typed
<1>4. CASE Flowing(c)
  BY <1>1, <1>2, <1>4 DEF Flowing, Answered
<1>5. ASSUME NEW d \in {1, 2}, Resumed(c, d) PROVE Resumed(c, d)'
  BY <1>1, <1>2, <1>5 DEF Resumed
<1> QED
  BY <1>3, <1>4, <1>5 DEF Answered

LEMMA QuietStep ==
  ASSUME SessionInv, QuietInv, [Next]_vars
  PROVE  QuietInv'
<1>1. SUFFICES ASSUME pc' = "reading", quiet' PROVE Answered(Head(todo))'
  BY DEF QuietInv
<1>2. CASE Send
  <2>1. /\ rest = << >> /\ keys = << >> /\ ~garbled /\ inq' = << >> /\ buf' = << >> /\ hits' = 0
        /\ keys' = Append(keys, Head(todo)) /\ todo' = todo
        /\ rest' = rest /\ keyed' = keyed /\ garbled' = garbled
    BY <1>1, <1>2 DEF Send, switch
  <2>2. ~keyed
    BY <2>1 DEF SessionInv, KeyedAtPager
  <2>3. keys' = <<Head(todo)>>
    BY <2>1
  <2>4. Typed(Head(todo))'
    BY <2>1, <2>2, <2>3 DEF Typed
  <2> QED
    BY <2>4 DEF Answered
<1>3. CASE Skip \/ ListPorts \/ (\E p \in ports : AskPort(p)) \/ Finish \/ Timeout \/ ReadPrompt
  BY <1>1, <1>3 DEF Skip, ListPorts, AskPort, Finish, Timeout, ReadPrompt, Record
<1>4. CASE UNCHANGED vars
  BY <1>1, <1>4 DEF vars, switch, QuietInv, Answered, Typed, Flowing, Resumed
<1>5. CASE Deliver \/ TakeAtPager \/ TakeAtShell \/ ReadMore \/ ReadOn
  <2>1. pc = "reading" /\ quiet /\ todo' = todo
    BY <1>1, <1>5 DEF Deliver, TakeAtPager, TakeAtShell, ReadMore, ReadOn
  <2>2. Head(todo) \in Commands
    <3>1. todo \in Seq(Commands) /\ todo # << >>
      BY <2>1 DEF SessionInv, TypeInv, ReadingACommand
    <3> QED
      BY <3>1, HeadTail
  <2>3. Answered(Head(todo))
    BY <2>1 DEF QuietInv
  <2>4. PICK e \in Commands : e = Head(todo)
    BY <2>2
  <2>5. Answered(e)
    BY <2>3, <2>4
  <2>6. Answered(e)'
    BY <1>5, <2>5, AnsweredDelivers, AnsweredAtPager, AnsweredAtShell, AnsweredReadsMore,
       AnsweredReadsOn
  <2>7. e = Head(todo')
    BY <2>1, <2>4
  <2> QED
    BY <2>6, <2>7 DEF Answered, Typed, Flowing, Resumed
<1> QED
  BY <1>2, <1>3, <1>4, <1>5 DEF Next, Asking, Reading

-----------------------------------------------------------------------------
(* What is captured when the prompt is there.                              *)

\* The text after the echo begins with the second token.
LEMMA AfterIs ==
  ASSUME NEW c \in Commands, NEW b \in Text, Len(b) >= 1, b[1] = Tok("echo", c, 0)
  PROVE  After(b, c) = 1
<1>1. DOMAIN b = 1 .. Len(b) /\ Len(b) \in Nat
  BY DEF Text
<1>2. b[1].kind = "echo" /\ b[1].cmd = c
  BY DEF Tok
<1>3. Cardinality({k \in 1 .. 1 - 1 : b[k].kind \in EndsLine}) < 3
  <2>1. {k \in 1 .. 1 - 1 : b[k].kind \in EndsLine} = {}
    OBVIOUS
  <2> QED
    BY <2>1, FS_EmptySet
<1>4. 1 \in EchoAt(b, c)
  BY <1>1, <1>2, <1>3 DEF EchoAt
<1>5. \A j \in EchoAt(b, c) : j \in Nat /\ 1 <= j
  BY <1>1 DEF EchoAt
<1>6. \A j \in EchoAt(b, c) : (\A k \in EchoAt(b, c) : j <= k) => j = 1
  BY <1>4, <1>5
<1>7. (CHOOSE j \in EchoAt(b, c) : \A k \in EchoAt(b, c) : j <= k) = 1
  BY <1>4, <1>5, <1>6
<1> QED
  BY <1>4, <1>7 DEF After

\* The prompt stands at the end and nowhere else: all has been read.
LEMMA AllIsRead ==
  ASSUME NEW s \in Text, NEW b \in Text, NEW r \in Text, Cut(s, b, r), b # << >>,
         Last(b).kind = "prompt", \A j \in 1 .. Len(s) : s[j].kind = "prompt" => j = Len(s)
  PROVE  b = s
<1>1. Len(s) \in Nat /\ Len(b) \in Nat /\ Len(r) \in Nat /\ Len(b) # 0
  BY DEF Text
<1>2. Len(b) \in 1 .. Len(s) /\ Len(b) \in 1 .. Len(b)
  BY <1>1 DEF Cut
<1>3. Last(b) = b[Len(b)]
  BY DEF Last
<1>4. s[Len(b)].kind = "prompt"
  BY <1>2, <1>3 DEF Cut
<1>5. Len(b) = Len(s)
  BY <1>2, <1>4
<1> QED
  BY <1>5, SeqEqual DEF Cut, Text

\* Without an error in the output none is seen in the text.
LEMMA NoErrorSeen ==
  ASSUME NEW c \in Commands, NEW b \in Text, \A j \in 1 .. Len(b) : b[j].kind # "error"
  PROVE  ~LooksLikeCliError(Clean(b, c))
<1>1. SUFFICES ASSUME Clean(b, c) # << >> PROVE Head(Clean(b, c)).kind # "error"
  BY DEF LooksLikeCliError
<1>2. Clean(b, c) \in Seq(TextToken)
  BY CleanIs DEF Text
<1>3. Head(Clean(b, c)) = Clean(b, c)[1] /\ 1 \in DOMAIN Clean(b, c)
  BY <1>1, <1>2, HeadTail
<1>4. PICK j \in CleanAt(b, c) : Clean(b, c)[1] = Shown(b, j)
  BY <1>3, CleanIs
<1>5. j \in DOMAIN b /\ j \in 1 .. Len(b)
  BY DEF CleanAt, Text
<1>6. Shown(b, j).kind \in {b[j].kind, "bare"}
  BY <1>5, ShownIs
<1> QED
  BY <1>3, <1>4, <1>5, <1>6

\* A refusal is seen as one.
LEMMA RefusalSeen ==
  ASSUME NEW c \in Commands
  PROVE  LooksLikeCliError(Clean(Refusal(c), c))
<1> DEFINE b == Refusal(c)
           S == CleanAt(b, c)
           t == Clean(b, c)
<1>1. /\ b \in Text /\ Len(b) = 3 /\ b[1] = Tok("echo", c, 0)
      /\ b[1].kind = "echo" /\ b[2].kind = "error" /\ b[3].kind = "prompt"
  BY RefusalIs, FixedKinds
<1> HIDE DEF b
<1>2. After(b, c) = 1 /\ DOMAIN b = 1 .. 3
  BY <1>1, AfterIs DEF Text
<1>3. S = {2}
  <2>1. 2 \in S
    <3>1. 2 \in 2 .. Len(b) /\ 2 \in DOMAIN b /\ 2 > 1
      BY <1>1, <1>2
    <3> QED
      BY <1>1, <1>2, <3>1 DEF CleanAt
  <2>2. ASSUME NEW j \in S PROVE j = 2
    <3>1. j \in 1 .. 3 /\ j > 1 /\ \E k \in j .. Len(b) : b[k].kind # "prompt"
      BY <1>2 DEF CleanAt
    <3>2. PICK k \in j .. 3 : b[k].kind # "prompt"
      BY <1>1, <3>1
    <3>3. k # 3
      BY <1>1, <3>2
    <3> QED
      BY <3>1, <3>3
  <2> QED
    BY <2>1, <2>2
<1>4. Cardinality(S) = 1
  BY <1>3, FS_Singleton
<1>5. t \in Text /\ DOMAIN t = 1 .. 1 /\ InOrder(S)[1] \in S /\ t[1] = Shown(b, InOrder(S)[1])
  <2>1. /\ t \in Text /\ DOMAIN t = 1 .. Cardinality(S)
        /\ \A i \in DOMAIN t : InOrder(S)[i] \in S /\ t[i] = Shown(b, InOrder(S)[i])
    BY <1>1, CleanIs
  <2> HIDE DEF t, S
  <2>2. 1 \in DOMAIN t
    BY <1>4, <2>1
  <2> QED
    BY <1>4, <2>1, <2>2
<1>6. t[1] = Shown(b, 2)
  BY <1>3, <1>5
<1>7. Shown(b, 2) = b[2]
  <2>1. 2 \in DOMAIN b
    BY <1>2
  <2> QED
    BY <1>1, <2>1, ShownIs
<1>8. t # << >> /\ Head(t) = t[1]
  <2>1. t # << >>
    BY <1>5
  <2> QED
    BY <1>5, <2>1, HeadTail DEF Text
<1> QED
  BY <1>1, <1>6, <1>7, <1>8 DEF LooksLikeCliError, b

\* Without a run of blanks taken out, an output that did not stop at the pager
\* is the rows as they were written.
LEMMA UnpagedText ==
  ASSUME NEW c \in Commands, c \notin Rejected, ~Paged(c), Residue(Answer(c)) = {}
  PROVE  Clean(Answer(c), c) = AllRows(c)
<1> DEFINE n == Len(Rows[c])
           b == Answer(c)
           S == CleanAt(b, c)
           f == [k \in 1 .. n |-> k + 1]
           t == Clean(b, c)
<1>1. /\ n \in Nat /\ AllRows(c) \in Text /\ Len(AllRows(c)) = n
      /\ \A i \in 1 .. n : AllRows(c)[i] = RowTok(c, i)
  BY AllRowsIs
<1>2. /\ b \in Text /\ Len(b) = n + 2 /\ b[1] = Tok("echo", c, 0)
      /\ \A i \in 1 .. n : b[i + 1] = RowTok(c, i)
      /\ b[n + 2].kind = "prompt"
  BY ShortAnswer, AnswerIs, FixedKinds
<1>3. \A j \in 1 .. n + 2 : b[j].kind = "prompt" => j = n + 2
  BY <1>2, UnpagedKinds
<1>4. Residue(b) = {}
  OBVIOUS
<1> HIDE DEF n, b
<1>5. After(b, c) = 1 /\ DOMAIN b = 1 .. n + 2
  BY <1>1, <1>2, AfterIs DEF Text
<1>6. S = {f[k] : k \in 1 .. n}
  <2>1. ASSUME NEW j \in S PROVE j \in {f[k] : k \in 1 .. n}
    <3>1. j \in 1 .. n + 2 /\ j > 1 /\ \E k \in j .. Len(b) : b[k].kind # "prompt"
      BY <1>5 DEF CleanAt
    <3>2. PICK k \in j .. n + 2 : b[k].kind # "prompt"
      BY <1>2, <3>1
    <3>3. k # n + 2
      BY <1>2, <3>2
    <3>4. j - 1 \in 1 .. n /\ f[j - 1] = j
      BY <1>1, <3>1, <3>3
    <3> QED
      BY <3>4
  <2>2. ASSUME NEW k \in 1 .. n PROVE k + 1 \in S
    <3>1. /\ k + 1 \in 1 .. n + 2 /\ k + 1 > 1 /\ k + 1 # n + 2 /\ k + 1 \in k + 1 .. n + 2
      BY <1>1
    <3>2. b[k + 1].kind # "prompt"
      BY <1>3, <3>1
    <3> QED
      BY <1>2, <1>4, <1>5, <3>1, <3>2 DEF CleanAt
  <2> QED
    BY <2>1, <2>2
<1>7. Cardinality(S) = n /\ InOrder(S) = [k \in 1 .. n |-> f[k]]
  <2>1. n + 2 \in Nat /\ DOMAIN f = 1 .. n
    BY <1>1
  <2>2. \A k \in 1 .. n : f[k] \in 1 .. n + 2
    BY <1>1
  <2>3. \A j, k \in 1 .. n : j < k => f[j] < f[k]
    BY <1>1
  <2>4. n \in Nat
    BY <1>1
  <2> HIDE DEF f, S
  <2>5. \A i : i \in S <=> \E k \in 1 .. n : i = f[k]
    BY <1>6
  <2> QED
    BY <2>1, <2>2, <2>3, <2>4, <2>5, InOrderIs
<1> HIDE DEF S, t
<1>8. /\ t \in Text /\ DOMAIN t = 1 .. n
      /\ \A i \in 1 .. n : t[i] = Shown(b, InOrder(S)[i])
  BY <1>2, <1>7, CleanIs DEF S, t
<1>9. ASSUME NEW i \in 1 .. n PROVE t[i] = AllRows(c)[i]
  <2>1. InOrder(S)[i] = i + 1 /\ i + 1 \in DOMAIN b
    BY <1>1, <1>5, <1>7
  <2>2. Shown(b, i + 1) = b[i + 1]
    BY <1>2, <1>4, <2>1, ShownIs
  <2> QED
    BY <1>1, <1>2, <1>8, <2>1, <2>2
<1>10. Len(t) = n
  BY <1>1, <1>8 DEF Text
<1>11. t = AllRows(c)
  BY <1>1, <1>9, <1>10, <1>8, SeqEqual DEF Text
<1> QED
  BY <1>11 DEF t, b

\* The rows that are really indented, and where they stand in a text of which d
\* tokens of the pager were taken out.
DeepRows(c) == {i \in DOMAIN Rows[c] : Rows[c][i].deep}
PlaceOf(i, d) == IF i <= Page THEN i + 1 ELSE i + 4 - d

LEMMA PlacesAre ==
  ASSUME NEW c \in Commands, Paged(c), NEW d \in {1, 2}, NEW i \in 1 .. Len(Rows[c])
  PROVE  /\ PlaceOf(i, d) \in 1 .. Len(Skipping(c, d)) /\ PlaceOf(i, d) > 1
         /\ PlaceOf(i, d) # Page + 4 - d
         /\ Skipping(c, d)[PlaceOf(i, d)] = RowTok(c, i)
         /\ RowTok(c, i).kind = IF i \in DeepRows(c) THEN "deep" ELSE "row"
<1> DEFINE n == Len(Rows[c])
           b == Skipping(c, d)
<1>1. n \in Nat /\ Page \in Nat /\ Page >= 1 /\ n > Page /\ DOMAIN Rows[c] = 1 .. n
  BY PagedAnswer, AllRowsIs
<1>2. /\ Len(b) = n + 5 - d
      /\ \A k \in 1 .. Page : b[k + 1] = RowTok(c, k)
      /\ \A k \in Page + 1 .. n : b[k + 4 - d] = RowTok(c, k)
  BY SkippingIs
<1>3. RowTok(c, i).kind = IF i \in DeepRows(c) THEN "deep" ELSE "row"
  BY <1>1, RowTokIs DEF DeepRows
<1>4. i \in 1 .. n
  OBVIOUS
<1> HIDE DEF n, b
<1>5. CASE i <= Page
  <2>1. PlaceOf(i, d) = i + 1 /\ i \in 1 .. Page
    BY <1>1, <1>4, <1>5 DEF PlaceOf
  <2>2. i + 1 \in 1 .. n + 5 - d /\ i + 1 > 1 /\ i + 1 # Page + 4 - d
    BY <1>1, <1>4, <1>5
  <2> QED
    BY <1>2, <1>3, <2>1, <2>2 DEF b
<1>6. CASE ~(i <= Page)
  <2>1. PlaceOf(i, d) = i + 4 - d /\ i \in Page + 1 .. n
    BY <1>1, <1>4, <1>6 DEF PlaceOf
  <2>2. i + 4 - d \in 1 .. n + 5 - d /\ i + 4 - d > 1 /\ i + 4 - d # Page + 4 - d
    BY <1>1, <1>4, <1>6
  <2> QED
    BY <1>2, <1>3, <2>1, <2>2 DEF b
<1> QED
  BY <1>5, <1>6

\* A run of blanks follows the end of a line at each of them, but the first row
\* after the pager, which follows the erase run.
LEMMA DeepLeads ==
  ASSUME NEW c \in Commands, Paged(c), NEW d \in {1, 2}, NEW i \in DeepRows(c), i # Page + 1
  PROVE  PlaceOf(i, d) \in Residue(Skipping(c, d))
<1> DEFINE n == Len(Rows[c])
           b == Skipping(c, d)
           j == PlaceOf(i, d)
<1>1. /\ n \in Nat /\ Page \in Nat /\ Page >= 1 /\ n > Page /\ DOMAIN Rows[c] = 1 .. n
      /\ i \in 1 .. n
  BY PagedAnswer, AllRowsIs DEF DeepRows
<1>2. b \in Text /\ b[1].kind = "echo"
  BY SkippingIs, FixedKinds
<1>3. j \in 1 .. Len(b) /\ b[j].kind = "deep"
  BY <1>1, PlacesAre
<1>4. b[j - 1].kind \in EndsLine
  <2>1. CASE i = 1
    <3>1. j - 1 = 1
      BY <1>1, <2>1 DEF PlaceOf
    <3> QED
      BY <1>2, <3>1 DEF EndsLine
  <2>2. CASE i # 1
    <3>1. i - 1 \in 1 .. n /\ PlaceOf(i - 1, d) = j - 1
      BY <1>1, <2>2 DEF PlaceOf
    <3>2. b[j - 1].kind \in {"row", "deep"}
      BY <3>1, PlacesAre
    <3> QED
      BY <3>2 DEF EndsLine
  <2> QED
    BY <2>1, <2>2
<1> HIDE DEF j, b
<1>5. j \in DOMAIN b
  BY <1>2, <1>3 DEF Text
<1>6. j \in Residue(b)
  BY <1>3, <1>4, <1>5 DEF Residue, Leads
<1> QED
  BY <1>6 DEF j, b

\* When half of the pager's prompt has stayed in the text, the run of blanks
\* after it is not at the beginning of a line and is not counted: the count is
\* of the rows that are really indented.
LEMMA HalfPrompt ==
  ASSUME NEW c \in Commands, Paged(c)
  PROVE  ResidueCount(Skipping(c, 1)) = Cardinality(DeepRows(c) \ {Page + 1})
<1> DEFINE n == Len(Rows[c])
           b == Skipping(c, 1)
           D == DeepRows(c) \ {Page + 1}
           R == Residue(b)
           f == [i \in D |-> PlaceOf(i, 1)]
<1>1. /\ n \in Nat /\ Page \in Nat /\ Page >= 1 /\ n > Page /\ DOMAIN Rows[c] = 1 .. n
  BY PagedAnswer, AllRowsIs
<1>2. /\ Len(b) = n + 4 /\ b \in Text /\ b[1].kind = "echo"
      /\ b[Page + 2].kind = "tail" /\ b[Page + 3].kind = "erase" /\ b[n + 4].kind = "prompt"
  <2>1. /\ Len(b) = n + 5 - 1 /\ b \in Text /\ b[1].kind = "echo"
        /\ b[Page + 2].kind = "tail" /\ b[Page + 4 - 1].kind = "erase"
        /\ b[n + 5 - 1].kind = "prompt"
    BY SkippingIs, FixedKinds
  <2>2. n + 5 - 1 = n + 4 /\ Page + 4 - 1 = Page + 3
    BY <1>1
  <2> QED
    BY <2>1, <2>2
<1>3. D \subseteq 1 .. n /\ IsFiniteSet(D)
  BY <1>1, FiniteNumbers DEF DeepRows
<1>4. \A i \in D : f[i] \in R
  BY DeepLeads
<1>5. ASSUME NEW j \in R PROVE \E i \in D : f[i] = j
  <2>1. j \in 1 .. n + 4 /\ b[j].kind \in {"erase", "deep"} /\ (j = 1 \/ b[j - 1].kind \in EndsLine)
    BY <1>2 DEF Residue, Leads, Text
  <2>2. j # Page + 3
    <3>1. SUFFICES ASSUME j = Page + 3 PROVE FALSE
      OBVIOUS
    <3>2. j # 1 /\ j - 1 = Page + 2
      BY <1>1, <3>1
    <3> QED
      BY <1>2, <2>1, <3>2 DEF EndsLine
  <2>3. j # Page + 4
    <3>1. SUFFICES ASSUME j = Page + 4 PROVE FALSE
      OBVIOUS
    <3>2. j # 1 /\ j - 1 = Page + 3
      BY <1>1, <3>1
    <3> QED
      BY <1>2, <2>1, <3>2 DEF EndsLine
  <2>4. j \notin {1, Page + 2, n + 4}
    BY <1>2, <2>1
  <2>5. PICK i \in 1 .. n : PlaceOf(i, 1) = j
    <3>1. CASE j <= Page + 1
      <4>1. j - 1 \in 1 .. n /\ PlaceOf(j - 1, 1) = j
        BY <1>1, <2>1, <2>4, <3>1 DEF PlaceOf
      <4> QED
        BY <4>1
    <3>2. CASE ~(j <= Page + 1)
      <4>1. j - 3 \in 1 .. n /\ PlaceOf(j - 3, 1) = j
        BY <1>1, <2>1, <2>2, <2>4, <3>2 DEF PlaceOf
      <4> QED
        BY <4>1
    <3> QED
      BY <3>1, <3>2
  <2>6. b[j].kind = IF i \in DeepRows(c) THEN "deep" ELSE "row"
    BY <2>5, PlacesAre
  <2>7. i \in DeepRows(c)
    BY <2>1, <2>6
  <2>8. i # Page + 1
    BY <1>1, <2>3, <2>5 DEF PlaceOf
  <2> QED
    BY <2>5, <2>7, <2>8
<1>6. \A i, k \in D : f[i] = f[k] => i = k
  <2>1. ASSUME NEW i \in 1 .. n, NEW k \in 1 .. n, PlaceOf(i, 1) = PlaceOf(k, 1) PROVE i = k
    <3> HIDE DEF n
    <3> QED
      BY <1>1, <2>1 DEF PlaceOf
  <2> QED
    BY <1>3, <2>1
<1>7. DOMAIN f = D
  OBVIOUS
<1>8. f \in [D -> R]
  BY <1>4
<1> HIDE DEF f, D, R
<1>9. f \in Bijection(D, R)
  BY <1>5, <1>6, <1>7, <1>8 DEF Bijection, Injection, Surjection, IsInjective
<1>10. ExistsBijection(D, R)
  BY <1>9 DEF ExistsBijection
<1>11. Cardinality(R) = Cardinality(D)
  BY <1>3, <1>10, FS_Bijection
<1> QED
  BY <1>11 DEF ResidueCount, R, D

\* With all of the pager's prompt taken out, the run of blanks after it is at
\* the beginning of a line and is taken out too; if it is the only one, what
\* remains is the rows, unless the row after it is indented and follows it.
LEMMA WholePrompt ==
  ASSUME NEW c \in Commands, Paged(c), ResidueCount(Skipping(c, 2)) = 1,
         DeepRows(c) # {Page + 1}
  PROVE  Clean(Skipping(c, 2), c) = AllRows(c)
<1> DEFINE n == Len(Rows[c])
           b == Skipping(c, 2)
           S == CleanAt(b, c)
           f == [k \in 1 .. n |-> IF k <= Page THEN k + 1 ELSE k + 2]
           t == Clean(b, c)
<1>1. n \in Nat /\ Page \in Nat /\ Page >= 1 /\ n > Page
  BY PagedAnswer
<1>2. /\ Len(b) = n + 5 - 2 /\ b \in Text /\ b[1] = Tok("echo", c, 0)
      /\ \A i \in 1 .. Page : b[i + 1] = RowTok(c, i)
      /\ b[Page + 4 - 2] = Tok("erase", NoCmd, 0)
      /\ \A i \in Page + 1 .. n : b[i + 4 - 2] = RowTok(c, i)
      /\ b[n + 5 - 2] = Tok("prompt", NoCmd, 0)
  BY SkippingIs
<1> DEFINE R == Residue(b)
<1>4. /\ n + 5 - 2 = n + 3 /\ Page + 4 - 2 = Page + 2
      /\ b[Page + 2].kind = "erase" /\ b[n + 3].kind = "prompt" /\ b[1].kind = "echo"
  <2>1. n + 5 - 2 = n + 3 /\ Page + 4 - 2 = Page + 2
    BY <1>1
  <2> QED
    BY <1>2, <2>1, FixedKinds
<1>3. \A i \in 1 .. n : RowTok(c, i).kind = "row"
  <2>1. \A i \in 1 .. n : RowTok(c, i).kind = IF i \in DeepRows(c) THEN "deep" ELSE "row"
    BY PlacesAre
  <2>2. DeepRows(c) \subseteq 1 .. n
    BY AllRowsIs DEF DeepRows
  <2>3. Page + 2 \in R
    <3>1. b[Page + 1].kind \in {"row", "deep"}
      <4>1. Page \in 1 .. Page /\ Page \in 1 .. n
        BY <1>1
      <4> QED
        BY <1>2, <2>1, <4>1
    <3>2. Page + 2 \in DOMAIN b /\ (Page + 2) - 1 = Page + 1
      BY <1>1, <1>2, <1>4 DEF Text
    <3>3. Leads(b, Page + 2)
      BY <3>1, <3>2 DEF Leads, EndsLine
    <3> QED
      BY <1>4, <3>2, <3>3 DEF Residue
  <2>4. Cardinality(R) = 1 /\ IsFiniteSet(R)
    <3>1. R \subseteq 1 .. Len(b) /\ Len(b) \in Nat
      BY <1>2 DEF Residue, Text
    <3> QED
      BY <3>1, FiniteNumbers DEF ResidueCount
  <2> HIDE DEF R
  <2>5. \A x \in R : x = Page + 2
    BY <2>3, <2>4, FS_Singleton
  <2>6. ASSUME NEW i \in DeepRows(c), i # Page + 1 PROVE FALSE
    <3>1. PlaceOf(i, 2) \in R
      BY <2>6, DeepLeads DEF R
    <3>2. PlaceOf(i, 2) # Page + 4 - 2
      BY <2>2, PlacesAre
    <3> QED
      BY <1>4, <2>5, <3>1, <3>2
  <2>7. DeepRows(c) = {}
    BY <2>6
  <2> QED
    BY <2>1, <2>7
<1>5. /\ AllRows(c) \in Text /\ Len(AllRows(c)) = n
      /\ \A i \in 1 .. n : AllRows(c)[i] = RowTok(c, i)
  BY AllRowsIs
<1> HIDE DEF n, b, R
<1>6. /\ After(b, c) = 1 /\ DOMAIN b = 1 .. n + 3 /\ Len(b) = n + 3
  BY <1>1, <1>2, <1>4, AfterIs DEF Text
<1>7. ASSUME NEW k \in 1 .. n
      PROVE  /\ f[k] \in 1 .. n + 3 /\ f[k] > 1 /\ f[k] # n + 3 /\ f[k] # Page + 2
             /\ b[f[k]] = RowTok(c, k)
  <2>1. CASE k <= Page
    <3>1. f[k] = k + 1 /\ k \in 1 .. Page
      BY <1>1, <2>1
    <3>2. b[k + 1] = RowTok(c, k)
      BY <1>2, <3>1
    <3>3. k + 1 \in 1 .. n + 3 /\ k + 1 > 1 /\ k + 1 # n + 3 /\ k + 1 # Page + 2
      BY <1>1, <2>1
    <3> QED
      BY <3>1, <3>2, <3>3
  <2>2. CASE ~(k <= Page)
    <3>1. f[k] = k + 2 /\ k \in Page + 1 .. n /\ k + 4 - 2 = k + 2
      BY <1>1, <2>2
    <3>2. b[k + 2] = RowTok(c, k)
      BY <1>2, <3>1
    <3>3. k + 2 \in 1 .. n + 3 /\ k + 2 > 1 /\ k + 2 # n + 3 /\ k + 2 # Page + 2
      BY <1>1, <2>2
    <3> QED
      BY <3>1, <3>2, <3>3
  <2> QED
    BY <2>1, <2>2
<1>8. \A j \in 1 .. n + 3 : \/ j \in {1, Page + 2, n + 3}
                            \/ \E k \in 1 .. n : j = f[k]
  <2>1. SUFFICES ASSUME NEW j \in 1 .. n + 3, j \notin {1, Page + 2, n + 3}
                 PROVE  \E k \in 1 .. n : j = f[k]
    OBVIOUS
  <2>2. CASE j <= Page + 1
    <3>1. j - 1 \in 1 .. n /\ j - 1 <= Page /\ (j - 1) + 1 = j
      BY <1>1, <2>1, <2>2
    <3>2. f[j - 1] = j
      BY <3>1
    <3> QED
      BY <3>1, <3>2
  <2>3. CASE ~(j <= Page + 1)
    <3>1. j - 2 \in 1 .. n /\ ~(j - 2 <= Page) /\ (j - 2) + 2 = j
      BY <1>1, <2>1, <2>3
    <3>2. f[j - 2] = j
      BY <3>1
    <3> QED
      BY <3>1, <3>2
  <2> QED
    BY <2>2, <2>3
<1>9. /\ n + 3 \in Nat /\ DOMAIN f = 1 .. n /\ n \in Nat
      /\ \A j, k \in 1 .. n : j < k => f[j] < f[k]
  BY <1>1
<1> HIDE DEF f
<1>10. Page + 2 \in Residue(b)
  <2>1. b[Page + 1].kind = "row"
    <3>1. Page \in 1 .. Page /\ Page \in 1 .. n
      BY <1>1
    <3> QED
      BY <1>2, <1>3, <3>1
  <2>2. Page + 2 \in 1 .. n + 3 /\ (Page + 2) - 1 = Page + 1
    BY <1>1
  <2>3. Leads(b, Page + 2)
    BY <2>1, <2>2 DEF Leads, EndsLine
  <2> QED
    BY <1>4, <1>6, <2>2, <2>3 DEF Residue
<1>11. \A j : j \in S <=> \E k \in 1 .. n : j = f[k]
  <2>1. ASSUME NEW j \in S PROVE \E k \in 1 .. n : j = f[k]
    <3>1. /\ j \in 1 .. n + 3 /\ j > 1 /\ ~(b[j].kind = "erase" /\ j \in Residue(b))
          /\ \E k \in j .. n + 3 : b[k].kind # "prompt"
      BY <1>6 DEF CleanAt
    <3>2. PICK k \in j .. n + 3 : b[k].kind # "prompt"
      BY <3>1
    <3>3. k # n + 3 /\ j # n + 3
      BY <1>1, <1>4, <3>1, <3>2
    <3>4. j # Page + 2 /\ j # 1
      BY <1>4, <1>10, <3>1
    <3> QED
      BY <1>8, <3>1, <3>3, <3>4
  <2>2. ASSUME NEW k \in 1 .. n PROVE f[k] \in S
    <3>1. f[k] \in 1 .. n + 3 /\ f[k] > 1 /\ b[f[k]].kind = "row"
      BY <1>3, <1>7
    <3>2. f[k] \in f[k] .. n + 3
      BY <1>1, <3>1
    <3> QED
      BY <1>6, <3>1, <3>2 DEF CleanAt
  <2> QED
    BY <2>1, <2>2
<1> HIDE DEF S, t
<1>12. Cardinality(S) = n /\ InOrder(S) = [k \in 1 .. n |-> f[k]]
  <2>1. \A k \in 1 .. n : f[k] \in 1 .. n + 3
    BY <1>7
  <2>2. n + 3 \in Nat /\ n \in Nat
    BY <1>9
  <2>3. DOMAIN f = 1 .. n /\ \A j, k \in 1 .. n : j < k => f[j] < f[k]
    BY <1>9
  <2> HIDE DEF R
  <2> QED
    BY <1>11, <2>1, <2>2, <2>3, InOrderIs
<1>13. /\ t \in Text /\ DOMAIN t = 1 .. n
       /\ \A i \in 1 .. n : t[i] = Shown(b, InOrder(S)[i])
  BY <1>2, <1>12, CleanIs DEF S, t
<1>14. ASSUME NEW i \in 1 .. n PROVE t[i] = AllRows(c)[i]
  <2>1. InOrder(S)[i] = f[i] /\ f[i] \in DOMAIN b /\ b[f[i]] = RowTok(c, i)
    BY <1>6, <1>7, <1>12
  <2>2. b[f[i]].kind # "deep"
    BY <1>3, <2>1
  <2>3. Shown(b, f[i]) = b[f[i]]
    BY <1>2, <2>1, <2>2, ShownIs
  <2> QED
    BY <1>5, <1>13, <2>1, <2>3
<1>15. Len(t) = n
  BY <1>1, <1>13 DEF Text
<1>16. t = AllRows(c)
  BY <1>5, <1>13, <1>14, <1>15, SeqEqual DEF Text
<1> QED
  BY <1>16 DEF t, b

\* What is said of a command typed on a quiet line once its prompt is there.
LEMMA AnswerTold ==
  ASSUME SessionInv, NEW c \in Commands, Answered(c), inq # << >>,
         ~HasMore(buf \o inq), Last(inq).kind = "prompt"
  PROVE  LET b == buf \o inq  t == Clean(b, c) IN
         /\ LooksLikeCliError(t) => c \in Rejected
         /\ ~LooksLikeCliError(t) /\ ResidueCount(b) = hits =>
               t = AllRows(c) \/ Coincidence(c)
<1> DEFINE b == buf \o inq
           t == Clean(b, c)
<1>1. /\ b \in Text /\ Len(b) = Len(buf) + Len(inq) /\ Len(buf) \in Nat /\ Len(inq) \in Nat
      /\ rest \in Text /\ inq \in Text
      /\ \A i \in 1 .. Len(buf) + Len(inq) : b[i] =
            IF i <= Len(buf) THEN buf[i] ELSE inq[i - Len(buf)]
  BY JoinIs DEF SessionInv, TypeInv
<1> HIDE DEF b
<1>2. b # << >> /\ Last(b).kind = "prompt"
  <2>1. Len(inq) >= 1 /\ Last(inq) = inq[Len(inq)]
    BY <1>1, HeadTail DEF Text, Last
  <2>2. /\ Len(b) \in 1 .. Len(buf) + Len(inq) /\ ~(Len(b) <= Len(buf))
        /\ Len(b) - Len(buf) = Len(inq) /\ Len(b) # 0
    BY <1>1, <2>1
  <2>3. b[Len(b)] = inq[Len(inq)]
    BY <1>1, <2>2
  <2>4. b # << >>
    BY <1>1, <2>2
  <2> QED
    BY <2>1, <2>3, <2>4 DEF Last
<1>3. ~Typed(c)
  BY DEF Typed
<1>4. CASE Flowing(c)
  <2>1. hits = 0 /\ Cut(Answer(c), b, rest) /\ (Paged(c) => Len(b) <= Page + 3)
    BY <1>4 DEF Flowing, b
  <2>2. Answer(c) \in Text
    BY AnswerIs
  <2>3. \A j \in 1 .. Len(Answer(c)) : Answer(c)[j].kind = "prompt" => j = Len(Answer(c))
    BY UnpagedKinds, PagedKinds
  <2>4. b = Answer(c)
    BY <1>1, <1>2, <2>1, <2>2, <2>3, AllIsRead
  <2>5. ~Paged(c)
    <3>1. Paged(c) => Len(b) = Len(Rows[c]) + 5 /\ Len(Rows[c]) \in Nat /\ Page \in Nat
                      /\ Len(Rows[c]) > Page
      BY <2>4, PagedAnswer
    <3> QED
      BY <2>1, <3>1
  <2>6. CASE c \in Rejected
    <3>1. LooksLikeCliError(t)
      BY <2>4, <2>6, AnswerIs, RefusalSeen
    <3> QED
      BY <2>6, <3>1 DEF b
  <2>7. CASE c \notin Rejected
    <3>1. ~LooksLikeCliError(t)
      <4>1. \A j \in 1 .. Len(b) : b[j].kind # "error"
        BY <2>4, <2>5, <2>7, UnpagedKinds
      <4> QED
        BY <1>1, <4>1, NoErrorSeen
    <3>2. ASSUME ResidueCount(b) = 0 PROVE t = AllRows(c)
      <4>1. Residue(b) = {}
        <5>1. Residue(b) \subseteq 1 .. Len(b) /\ Len(b) \in Nat
          BY <1>1 DEF Residue, Text
        <5>2. IsFiniteSet(Residue(b))
          BY <5>1, FiniteNumbers
        <5> QED
          BY <3>2, <5>2, FS_EmptySet DEF ResidueCount
      <4> QED
        BY <2>4, <2>5, <2>7, <4>1, UnpagedText
    <3> QED
      BY <2>1, <3>1, <3>2 DEF b
  <2> QED
    BY <2>6, <2>7
<1>5. CASE \E d \in {1, 2} : Resumed(c, d)
  <2>1. PICK d \in {1, 2} : Resumed(c, d)
    BY <1>5
  <2>2. Paged(c) /\ hits = 1 /\ Cut(Skipping(c, d), b, rest)
    BY <2>1 DEF Resumed, b
  <2>3. Skipping(c, d) \in Text
    BY <2>2, SkippingIs
  <2>4. \A j \in 1 .. Len(Skipping(c, d)) :
          /\ Skipping(c, d)[j].kind = "prompt" => j = Len(Skipping(c, d))
          /\ Skipping(c, d)[j].kind # "error"
    BY <2>2, SkippingKinds
  <2>5. b = Skipping(c, d)
    BY <1>1, <1>2, <2>2, <2>3, <2>4, AllIsRead
  <2>6. ~LooksLikeCliError(t)
    BY <1>1, <2>4, <2>5, NoErrorSeen
  <2>7. ASSUME ~Coincidence(c), ResidueCount(b) = 1 PROVE t = AllRows(c)
    <3>1. Cardinality(DeepRows(c) \ {Page + 1}) # 1 /\ DeepRows(c) # {Page + 1}
      BY <2>2, <2>7 DEF Coincidence, DeepRows, Paged
    <3>2. d # 1
      BY <2>2, <2>5, <2>7, <3>1, HalfPrompt
    <3>3. b = Skipping(c, 2)
      BY <2>5, <3>2
    <3>4. Clean(Skipping(c, 2), c) = AllRows(c)
      BY <2>2, <2>7, <3>1, <3>3, WholePrompt
    <3> QED
      BY <3>3, <3>4
  <2> QED
    BY <2>2, <2>6, <2>7 DEF b
<1> QED
  BY <1>3, <1>4, <1>5 DEF Answered

LEMMA ToldStep ==
  ASSUME SessionInv, QuietInv, CaptureTold, [Next]_vars
  PROVE  CaptureTold'
<1> DEFINE c == Head(todo)
           b == buf \o inq
           t == Clean(b, c)
           k == IF LooksLikeCliError(t) THEN "unsupported" ELSE "ok"
           n == ResidueCount(b) # hits
<1>1. CASE caps' = caps
  BY <1>1 DEF CaptureTold
<1>2. CASE ReadPrompt
  <2>1. /\ pc = "reading" /\ todo # << >> /\ listed' = listed /\ ports' = ports
        /\ Record(k, t, n) /\ inq # << >> /\ ~HasMore(b) /\ Last(inq).kind = "prompt"
    BY <1>2 DEF ReadPrompt, SessionInv, ReadingACommand
  <2>2. PICK e \in Commands : e = c
    <3>1. todo \in Seq(Commands)
      BY DEF SessionInv, TypeInv
    <3> QED
      BY <2>1, <3>1, HeadTail
  <2>3. b \in Text
    BY JoinIs DEF SessionInv, TypeInv
  <2>4. t \in Text /\ k \in {"ok", "unsupported", "timeout"} /\ n \in BOOLEAN
    BY <2>3, CleanIs
  <2>5. quiet => /\ LooksLikeCliError(t) => e \in Rejected
                 /\ ~LooksLikeCliError(t) /\ ResidueCount(b) = hits =>
                       t = AllRows(e) \/ Coincidence(e)
    <3>1. SUFFICES ASSUME quiet
                   PROVE  /\ LooksLikeCliError(t) => e \in Rejected
                          /\ ~LooksLikeCliError(t) /\ ResidueCount(b) = hits =>
                                t = AllRows(e) \/ Coincidence(e)
      OBVIOUS
    <3>2. Answered(e)
      BY <2>1, <2>2, <3>1 DEF QuietInv
    <3> QED
      BY <2>1, <2>2, <3>2, AnswerTold
  <2> HIDE DEF t, k, n, b
  <2>6. /\ DOMAIN caps' = DOMAIN caps \cup {c}
        /\ caps'[c] = [kind |-> k, text |-> t, note |-> n, quiet |-> quiet]
        /\ \A d \in DOMAIN caps : caps'[d] = caps[d]
    BY <2>1, <2>4, RecordKeeps
  <2>7. /\ caps'[c].kind = k /\ caps'[c].text = t /\ caps'[c].note = n
        /\ caps'[c].quiet = quiet
    BY <2>6
  <2>8. /\ (k = "unsupported" => LooksLikeCliError(t))
        /\ (k = "ok" => ~LooksLikeCliError(t))
        /\ (~n => ResidueCount(b) = hits)
    BY DEF k, n
  <2>9. caps'[c].quiet =>
          /\ caps'[c].kind = "unsupported" => c \in Rejected
          /\ caps'[c].kind = "ok" /\ ~caps'[c].note => caps'[c].text = AllRows(c) \/ Coincidence(c)
    BY <2>2, <2>5, <2>7, <2>8
  <2> QED
    BY <2>6, <2>9 DEF CaptureTold
<1>3. CASE Timeout
  <2>1. todo # << >> /\ listed' = listed /\ ports' = ports /\ Record("timeout", << >>, FALSE)
    BY <1>3 DEF Timeout, SessionInv, ReadingACommand
  <2>2. << >> \in Text
    BY EmptySeq DEF Text
  <2>3. /\ DOMAIN caps' = DOMAIN caps \cup {c} /\ caps'[c].kind = "timeout"
        /\ \A d \in DOMAIN caps : caps'[d] = caps[d]
    <3>1. /\ DOMAIN caps' = DOMAIN caps \cup {Head(todo)}
          /\ caps'[Head(todo)] =
               [kind |-> "timeout", text |-> << >>, note |-> FALSE, quiet |-> quiet]
          /\ \A d \in DOMAIN caps : caps'[d] = caps[d]
      BY <2>1, <2>2, RecordKeeps
    <3>2. caps'[Head(todo)].kind = "timeout"
      BY <3>1
    <3> QED
      BY <3>1, <3>2
  <2> QED
    BY <2>3 DEF CaptureTold
<1>4. CASE ~ReadPrompt /\ ~Timeout
  <2>1. caps' = caps
    BY <1>4 DEF Next, Asking, Reading, Send, Skip, ListPorts, AskPort, Finish, ReadMore, ReadOn,
                Deliver, TakeAtPager, TakeAtShell, vars
  <2> QED
    BY <1>1, <2>1
<1> QED
  BY <1>2, <1>3, <1>4

\* A command typed at an idle prompt is captured as the switch wrote it, or with
\* the note that the pager's prompts answered and the runs of blanks removed do
\* not agree in number, outside the one coincidence that the counts cannot
\* tell; and it is called unsupported only if the firmware refused it.
THEOREM CapturesTold == Spec => []CaptureTold
<1>1. Init => QuietInv /\ CaptureTold
  <2>1. SUFFICES ASSUME Init PROVE QuietInv /\ CaptureTold
    OBVIOUS
  <2>2. DOMAIN caps = {}
    BY <2>1 DEF Init
  <2> QED
    BY <2>1, <2>2 DEF Init, QuietInv, CaptureTold
<1> QED
  BY <1>1, SessionInit, SessionStep, QuietStep, ToldStep, PTL DEF Spec
=============================================================================
