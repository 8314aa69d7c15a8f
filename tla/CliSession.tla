----------------------------- MODULE CliSession -----------------------------
(***************************************************************************)
(* One switch read over its command line (tsn_discovery/istax.py): collect *)
(* sends show commands one after the other on an interactive channel, and  *)
(* run tells where the output of each ends by waiting for the prompt.      *)
(* Output arrives in pieces, stops at a pager until a key is sent, and may *)
(* still be coming when the deadline of its command has passed.            *)
(*                                                                         *)
(* Text is a sequence of tokens: a row of output, the two halves of the    *)
(* pager's prompt, the run of blanks by which the switch erases it, ...    *)
(***************************************************************************)
EXTENDS Integers, SequencesExt, Ordered

CONSTANTS
  Globals,     \* keys of the switch-wide commands, in order (GLOBAL_COMMANDS)
  PerPort,     \* keys asked per interface (PER_INTERFACE_COMMANDS)
  Ports,       \* the interfaces of the switch
  ListKey,     \* the key whose rows name the interfaces ("interface-status")
  Rows,        \* Rows[c]: what the switch has to say on command c
  Rejected,    \* the commands this firmware does not have
  Page,        \* rows on a screen: longer output stops at the pager once
  None         \* no port: a switch-wide command

GlobalCmds == {[key |-> k, port |-> None] : k \in ToSet(Globals)}
PortCmds == {[key |-> k, port |-> p] : k \in ToSet(PerPort), p \in Ports}
Commands == GlobalCmds \cup PortCmds

\* A row names the port it is about; a deep one starts with 15 or more blanks.
Row == [port : Ports \cup {None}, deep : BOOLEAN]

ASSUME SessionAssumption ==
  /\ None \notin Ports /\ ToSet(PerPort) \subseteq ToSet(Globals)
  /\ Globals \in Seq(ToSet(Globals)) /\ PerPort \in Seq(ToSet(Globals))
  \* the tables of commands have each key once, and no pager key among them
  /\ \A i, j \in DOMAIN Globals : Globals[i] = Globals[j] => i = j
  /\ \A i, j \in DOMAIN PerPort : PerPort[i] = PerPort[j] => i = j
  /\ "g" \notin ToSet(Globals)
  /\ ListKey \in ToSet(Globals) /\ Rejected \subseteq Commands
  /\ Page \in Nat \ {0}
  /\ DOMAIN Rows = Commands /\ \A c \in Commands : Rows[c] \in Seq(Row)

NoCmd == [key |-> "none", port |-> None]
Key   == [key |-> "g", port |-> None]     \* MORE_CONTINUE

\* Tokens.  "bare" is a deep row that has lost its indentation.
Kinds == {"echo", "row", "deep", "bare", "more", "tail", "erase", "error", "prompt"}
Tok(k, c, i) == [kind |-> k, cmd |-> c, at |-> i]
EndsLine == {"echo", "row", "deep", "error"}

VARIABLES
  \* the switch
  rest,      \* what it still has to write
  keyed,     \* a key has been pressed at the pager
  garbled,   \* a stray key stands at the beginning of the input line
  \* the channel
  keys,      \* typed and not yet read by the switch: commands and keys
  inq,       \* written by the switch and not yet read by the client
  \* the client
  pc,        \* "ready", "reading", "done"
  todo,      \* commands still to be run, switch-wide or of one interface
  listed,    \* the switch-wide commands have been run
  ports,     \* then: the interfaces still to be asked
  buf, hits, \* of the command being read: text so far, pager prompts answered
  caps,      \* captures by command
  \* whether the command being read was sent on a quiet line
  quiet

switch == <<rest, keyed, garbled>>
vars == <<switch, keys, inq, pc, todo, listed, ports, buf, hits, caps, quiet>>

Token == [kind : Kinds, cmd : Commands \cup {NoCmd}, at : Nat]
Capture == [kind : {"ok", "unsupported", "timeout"}, text : Seq(Token),
            note : BOOLEAN, quiet : BOOLEAN]

Init ==
  /\ rest = << >> /\ keyed = FALSE /\ garbled = FALSE
  /\ keys = << >> /\ inq = << >>
  /\ pc = "ready" /\ listed = FALSE /\ ports = {}
  /\ todo = [i \in DOMAIN Globals |-> [key |-> Globals[i], port |-> None]]
  /\ buf = << >> /\ hits = 0 /\ caps = << >> /\ quiet = TRUE

-----------------------------------------------------------------------------
(* The switch                                                              *)

RowTok(c, i) == Tok(IF Rows[c][i].deep THEN "deep" ELSE "row", c, i)
AllRows(c) == [i \in DOMAIN Rows[c] |-> RowTok(c, i)]

Echo(c)   == <<Tok("echo", c, 0)>>
Prompt    == <<Tok("prompt", NoCmd, 0)>>
Pager     == <<Tok("more", NoCmd, 0), Tok("tail", NoCmd, 0), Tok("erase", NoCmd, 0)>>
Refusal(c) == Echo(c) \o <<Tok("error", c, 0)>> \o Prompt

Answer(c) ==
  IF c \in Rejected THEN Refusal(c)
  ELSE LET r == AllRows(c) IN
       Echo(c) \o (IF Len(r) <= Page THEN r
                   ELSE SubSeq(r, 1, Page) \o Pager \o SubSeq(r, Page + 1, Len(r)))
               \o Prompt

AtPager == rest # << >> /\ Head(rest).kind = "erase" /\ ~keyed

\* One more token reaches the client.
Deliver ==
  /\ rest # << >> /\ ~AtPager
  /\ inq' = Append(inq, Head(rest))
  /\ rest' = Tail(rest)
  /\ keyed' = (keyed /\ Head(rest).kind # "erase")
  /\ UNCHANGED <<garbled, keys, pc, todo, listed, ports, buf, hits, caps, quiet>>

\* What is typed at the pager resumes the output.  A command typed there is
\* used up as keys, or what is left of it is refused.
TakeAtPager ==
  /\ AtPager /\ keys # << >>
  /\ keyed' = TRUE /\ keys' = Tail(keys)
  /\ \/ UNCHANGED rest
     \/ Head(keys) # Key /\ rest' = rest \o Refusal(Head(keys))
  /\ UNCHANGED <<garbled, inq, pc, todo, listed, ports, buf, hits, caps, quiet>>

\* The shell reads a line; a key that came without a pager spoils it.
TakeAtShell ==
  /\ rest = << >> /\ keys # << >>
  /\ keys' = Tail(keys)
  /\ IF Head(keys) = Key THEN garbled' = TRUE /\ UNCHANGED rest
     ELSE /\ rest' = IF garbled THEN Refusal(Head(keys)) ELSE Answer(Head(keys))
          /\ garbled' = FALSE
  /\ UNCHANGED <<keyed, inq, pc, todo, listed, ports, buf, hits, caps, quiet>>

-----------------------------------------------------------------------------
(* _clean and _looks_like_cli_error                                        *)

\* Token j of text b is the first on its line.
Leads(b, j) == j = 1 \/ b[j - 1].kind \in EndsLine

\* Runs of blanks at the start of a line: what PAGER_RESIDUE_RE removes.
Residue(b) == {j \in DOMAIN b : b[j].kind \in {"erase", "deep"} /\ Leads(b, j)}
ResidueCount(b) == Cardinality(Residue(b))

Stripped(b, j) ==
  j \in Residue(b) \/ (j > 1 /\ j - 1 \in Residue(b) /\ b[j - 1].kind = "erase")
Shown(b, j) == IF b[j].kind = "deep" /\ Stripped(b, j) THEN [b[j] EXCEPT !.kind = "bare"] ELSE b[j]

\* The echo of c, if it is among the first three lines.  The code takes any line
\* with the command's text in it, which is another only on a line not quiet.
EchoAt(b, c) ==
  {j \in DOMAIN b : /\ b[j].kind = "echo" /\ b[j].cmd = c
                    /\ Cardinality({k \in 1 .. j - 1 : b[k].kind \in EndsLine}) < 3}
After(b, c) == IF EchoAt(b, c) = {} THEN 0 ELSE CHOOSE j \in EchoAt(b, c) :
                                                  \A k \in EchoAt(b, c) : j <= k

Clean(b, c) ==
  LET kept(j) == /\ j > After(b, c)
                 /\ ~(b[j].kind = "erase" /\ j \in Residue(b))
                 /\ \E k \in j .. Len(b) : b[k].kind # "prompt"
      at == InOrder({j \in DOMAIN b : kept(j)})
  IN  [i \in DOMAIN at |-> Shown(b, at[i])]

LooksLikeCliError(text) == text # << >> /\ Head(text).kind = "error"

\* The text with every pager prompt taken out, up to the end of its line.
WithoutMore(b) ==
  LET kept(j) == \A k \in 1 .. j : b[k].kind = "more" =>
                   \E e \in k .. j - 1 : b[e].kind \in EndsLine
      at == InOrder({j \in DOMAIN b : kept(j)})
  IN  [i \in DOMAIN at |-> b[at[i]]]
HasMore(b) == \E j \in DOMAIN b : b[j].kind = "more"

-----------------------------------------------------------------------------
(* The client                                                              *)

\* _mentions_interface: the switch-wide form already returned this interface.
Mentions(text, p) ==
  \E j \in DOMAIN text : /\ text[j].kind \in {"row", "deep", "bare"}
                         /\ Rows[text[j].cmd][text[j].at].port = p
Covered(c) ==
  LET g == [key |-> c.key, port |-> None] IN
  /\ c.port # None /\ g \in DOMAIN caps
  /\ caps[g].kind = "ok" /\ Mentions(caps[g].text, c.port)

\* Mutant: stale output is left in the channel.
SendOnTop ==
  /\ pc = "ready" /\ todo # << >> /\ ~Covered(Head(todo))
  /\ keys' = Append(keys, Head(todo))
  /\ buf' = << >> /\ hits' = 0 /\ pc' = "reading"
  /\ quiet' = (rest = << >> /\ keys = << >> /\ ~garbled)
  /\ UNCHANGED <<switch, inq, todo, listed, ports, caps>>

\* Drain anything stale, type the command.
Send ==
  /\ pc = "ready" /\ todo # << >> /\ ~Covered(Head(todo))
  /\ inq' = << >>
  /\ keys' = Append(keys, Head(todo))
  /\ buf' = << >> /\ hits' = 0 /\ pc' = "reading"
  /\ quiet' = (rest = << >> /\ keys = << >> /\ ~garbled)
  /\ UNCHANGED <<switch, todo, listed, ports, caps>>

Skip ==
  /\ pc = "ready" /\ todo # << >> /\ Covered(Head(todo))
  /\ todo' = Tail(todo)
  /\ UNCHANGED <<switch, keys, inq, pc, listed, ports, buf, hits, caps, quiet>>

Kept(c, capture) == [d \in DOMAIN caps \cup {c} |-> IF d = c THEN capture ELSE caps[d]]
Record(k, text, note) ==
  /\ caps' = Kept(Head(todo), [kind |-> k, text |-> text, note |-> note, quiet |-> quiet])
  /\ todo' = Tail(todo) /\ pc' = "ready" /\ buf' = << >>

\* One turn of _read_until_prompt: everything that has arrived is read.
ReadMore ==
  /\ pc = "reading" /\ inq # << >> /\ HasMore(buf \o inq)
  /\ buf' = WithoutMore(buf \o inq) /\ inq' = << >>
  /\ hits' = hits + 1 /\ keys' = Append(keys, Key)
  /\ UNCHANGED <<switch, pc, todo, listed, ports, caps, quiet>>

ReadOn ==
  /\ pc = "reading" /\ inq # << >> /\ ~HasMore(buf \o inq)
  /\ Last(inq).kind # "prompt"
  /\ buf' = buf \o inq /\ inq' = << >>
  /\ UNCHANGED <<switch, keys, pc, todo, listed, ports, hits, caps, quiet>>

ReadPrompt ==
  /\ pc = "reading" /\ inq # << >> /\ ~HasMore(buf \o inq)
  /\ Last(inq).kind = "prompt"
  /\ LET b == buf \o inq  text == Clean(b, Head(todo)) IN
     Record(IF LooksLikeCliError(text) THEN "unsupported" ELSE "ok", text,
            ResidueCount(b) # hits)
  /\ inq' = << >>
  /\ UNCHANGED <<switch, keys, listed, ports, hits, quiet>>

\* Mutant: a read waits until something has arrived.
TimeoutOnOutput ==
  /\ pc = "reading" /\ inq # << >>
  /\ Record("timeout", << >>, FALSE)
  /\ UNCHANGED <<switch, keys, inq, listed, ports, hits, quiet>>

\* Mutant: a command that timed out is sent again.
TimeoutRetried ==
  /\ pc = "reading" /\ pc' = "ready" /\ buf' = << >>
  /\ caps' = Kept(Head(todo), [kind |-> "timeout", text |-> << >>, note |-> FALSE,
                               quiet |-> quiet])
  /\ UNCHANGED <<switch, keys, inq, todo, listed, ports, hits, quiet>>

\* No prompt before the deadline.
Timeout ==
  /\ pc = "reading"
  /\ Record("timeout", << >>, FALSE)
  /\ UNCHANGED <<switch, keys, inq, listed, ports, hits, quiet>>

\* The interfaces that the table names: parse_interfaces, on whole rows.  The
\* code takes every row under a heading with an Interface column, also a displaced
\* or a foreign one: exact when the command that lists is typed on a quiet line.
InterfaceRows ==
  LET c == [key |-> ListKey, port |-> None] IN
  IF c \notin DOMAIN caps \/ caps[c].kind # "ok" THEN {}
  ELSE {t \in {caps[c].text[j] : j \in {i \in DOMAIN caps[c].text : Leads(caps[c].text, i)}} :
          t.cmd = c /\ t.kind \in {"row", "bare"}}

ListedPorts == {Rows[t.cmd][t.at].port : t \in InterfaceRows} \ {None}

\* After the switch-wide commands, each interface that was listed is asked on
\* its own, one after the other in the order of their names, which may be any.
ListPorts ==
  /\ pc = "ready" /\ todo = << >> /\ ~listed
  /\ listed' = TRUE /\ ports' = ListedPorts
  /\ UNCHANGED <<switch, keys, inq, pc, todo, buf, hits, caps, quiet>>

AskPort(p) ==
  /\ pc = "ready" /\ todo = << >> /\ p \in ports
  /\ ports' = ports \ {p}
  /\ todo' = [k \in DOMAIN PerPort |-> [key |-> PerPort[k], port |-> p]]
  /\ UNCHANGED <<switch, keys, inq, pc, listed, buf, hits, caps, quiet>>

Finish ==
  /\ pc = "ready" /\ todo = << >> /\ listed /\ ports = {}
  /\ pc' = "done"
  /\ UNCHANGED <<switch, keys, inq, todo, listed, ports, buf, hits, caps, quiet>>

Asking == \/ Send \/ Skip \/ ListPorts \/ (\E p \in ports : AskPort(p)) \/ Finish
Reading == ReadMore \/ ReadOn \/ ReadPrompt
Next == Deliver \/ TakeAtPager \/ TakeAtShell \/ Asking \/ Reading \/ Timeout

Spec == Init /\ [][Next]_vars

\* The client goes on from one command to the next and its clock runs; the
\* switch, and what there is to read, owe nothing.
FairSpec == Spec /\ WF_vars(Asking) /\ WF_vars(Timeout)

-----------------------------------------------------------------------------
(* Properties                                                              *)

TypeOK ==
  /\ rest \in Seq(Token) /\ inq \in Seq(Token) /\ buf \in Seq(Token)
  /\ keys \in Seq(Commands \cup {Key}) /\ todo \in Seq(Commands)
  /\ keyed \in BOOLEAN /\ garbled \in BOOLEAN /\ listed \in BOOLEAN
  /\ quiet \in BOOLEAN /\ hits \in Nat /\ pc \in {"ready", "reading", "done"}
  /\ ports \subseteq Ports /\ DOMAIN caps \subseteq Commands
  /\ \A c \in DOMAIN caps : caps[c] \in Capture
  /\ \A i \in DOMAIN todo : todo[i] \notin DOMAIN caps   \* none is asked twice

\* The case that the counts of _clean cannot tell: on paged output, one row that
\* is really indented stands in for an erase run that was missed, or follows the
\* erase run and is stripped with it.
Coincidence(c) ==
  LET deep == {i \in DOMAIN Rows[c] : Rows[c][i].deep} IN
  Len(Rows[c]) > Page /\ (Cardinality(deep \ {Page + 1}) = 1 \/ deep = {Page + 1})

\* A command typed at an idle prompt, however its output arrives in pieces,
\* stops at the pager and meets what earlier commands left in the channel, is
\* captured as the switch wrote it or with a note that says otherwise, and is
\* called unsupported only if the firmware refused it (istax.py, "the
\* difference between a silent mis-parse and a recorded warning").
CaptureTold ==
  \A c \in DOMAIN caps :
    caps[c].quiet =>
      /\ caps[c].kind = "unsupported" => c \in Rejected
      /\ caps[c].kind = "ok" /\ ~caps[c].note =>
           caps[c].text = AllRows(c) \/ Coincidence(c)

\* collect() comes to its end, whatever the switch does or stops doing.
CollectEnds == <>(pc = "done")
=============================================================================
