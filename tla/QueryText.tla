----------------------------- MODULE QueryText -----------------------------
(***************************************************************************)
(* The text of a query on its way to the server.  The driver reads it      *)
(* several times with two scanners written apart from each other:          *)
(* SC_scanQueryAndCountParams counts the markers and finds the ends of the *)
(* commands, in the text of the application and once more in the text the  *)
(* driver made of it; inner_process_tokens makes that text, with $n or a   *)
(* literal in the place of each marker.  The server then reads it by the   *)
(* rules of PostgreSQL.  The module lets all of them read one unbounded    *)
(* text in step, a character and the character behind it at a time.        *)
(*                                                                         *)
(* A character stands for its kind; "mb" is a multibyte character, "$$"    *)
(* and "$t$" are dollar-quote tags, "{call " and "{?=call " the beginnings *)
(* of an escape sequence, and "," is anything none of them gives a         *)
(* meaning.  Legible leaves out what the scanners are known to read        *)
(* differently; the README lists it.                                       *)
(***************************************************************************)
EXTENDS Integers, SequencesExt

CONSTANTS
    MaxMarkers,     \* bound on the markers of a command
    MaxCommands,    \* bound on the commands of a text
    MaxNesting,     \* bound on nested comments
    MaxBraces,      \* bound on nested escape sequences
    MaxValue        \* bound on the length of a value

ASSUME QueryAssumption ==
    /\ MaxMarkers \in 1 .. 3 /\ MaxCommands \in Nat \ {0}
    /\ MaxNesting \in Nat \ {0} /\ MaxBraces \in Nat /\ MaxValue \in Nat

VARIABLES
    conn,    \* how parameters are sent, and the escape character in literals
    cur,     \* the character to be read next
    whole,   \* the scan of the whole text for SQLNumParams
    org,     \* the scan of the present command of the text
    gen,     \* the scan of the present command of the generated text
    qb,      \* QueryParse and QueryBuild
    srv,     \* the lexer of the server
    val      \* the value written by the last step

vars == <<conn, cur, whole, org, gen, qb, srv, val>>

Tags == {"$$", "$t$"}
Alnum == {"a", "E"}
Dollars == <<"$1", "$2", "$3">>
Word == Alnum \cup Tags \cup {"_"}
Blank == {" ", "nl"}
Chars == Word \cup Blank \cup {"mb", "?", ";", "'", "\"", "\\", "-", "/", "*", ",",
                               "{call ", "{?=call ", "}"}
ValueChars == {"a", "'", "\\", "mb"}

-----------------------------------------------------------------------------
(* SC_scanQueryAndCountParams, statement.c.                                *)

NewScan == [mode |-> "idle", esc |-> FALSE, lvl |-> 0, skip |-> FALSE, tag |-> "none",
            prev |-> FALSE, num |-> 0, ret |-> 0,
            end |-> FALSE,               \* del_found
            before |-> 0, at |-> 1]      \* num_pa and the number of the command

\* What lies between the quotes of a literal, an identifier or a comment.
ScanQuoted(r, c, n) ==
    CASE r.mode = "dollar" ->
           IF c = r.tag THEN [r EXCEPT !.mode = "idle", !.tag = "none"] ELSE r
      [] r.mode = "escape" -> [r EXCEPT !.mode = "literal"]
      [] r.mode = "literal" ->
           IF c = "\\" /\ r.esc THEN [r EXCEPT !.mode = "escape"]
           ELSE IF c = "'" THEN [r EXCEPT !.mode = "idle", !.esc = FALSE] ELSE r
      [] r.mode = "dquote" -> [r EXCEPT !.mode = IF c = "\"" THEN "idle" ELSE @]
      [] r.mode = "line" -> [r EXCEPT !.mode = IF c = "nl" THEN "idle" ELSE @]
      [] r.mode = "block" ->
           IF c = "/" /\ n = "*" THEN [r EXCEPT !.lvl = @ + 1, !.skip = TRUE]
           ELSE IF c = "*" /\ n = "/"
                THEN [r EXCEPT !.lvl = @ - 1, !.skip = TRUE,
                               !.mode = IF r.lvl = 1 THEN "idle" ELSE @]
           ELSE r

ScanIdle(r, c, n) ==
    CASE c \in Alnum -> [r EXCEPT !.mode = "ident"]
      [] c \in Range(Dollars) -> [r EXCEPT !.mode = "ident"]    \* no tag, then a digit
      [] c = "?" -> [r EXCEPT !.mode = "idle", !.num = @ + 1]
      [] c = "{?=call " ->
           [r EXCEPT !.mode = "idle", !.num = @ + 1,
                     !.ret = IF r.num = 0 THEN 1 ELSE @]
      [] c = ";" -> [r EXCEPT !.mode = "idle", !.end = TRUE]
      [] c \in Tags -> [r EXCEPT !.mode = "dollar", !.tag = c]
      [] c = "'" -> [r EXCEPT !.mode = "literal", !.esc = conn.escape \/ r.prev]
      [] c = "\"" -> [r EXCEPT !.mode = "dquote"]
      [] c = "-" /\ n = "-" -> [r EXCEPT !.mode = "line", !.skip = TRUE]
      [] c = "/" /\ n = "*" -> [r EXCEPT !.mode = "block", !.lvl = 1, !.skip = TRUE]
      [] OTHER -> [r EXCEPT !.mode = "idle"]

\* One turn of its loop: character c is read, n is the one behind it.
Scan(r, c, n) ==
    [ (CASE r.skip -> [r EXCEPT !.skip = FALSE]
         [] ~r.skip /\ c = "mb" -> [r EXCEPT !.mode = IF @ = "idle" THEN "ident" ELSE @]
         [] ~r.skip /\ r.mode = "ident" /\ c \in Word -> r
         [] ~r.skip /\ c # "mb" /\ r.mode \notin {"idle", "ident"} -> ScanQuoted(r, c, n)
         [] OTHER -> ScanIdle(r, c, n))
      EXCEPT !.prev = (c = "E") ]

\* Something behind the end of the command: prepareParametersNoDesc scans on
\* from there.
Starts(r, c) == r.end /\ c \notin Blank \cup {"mb"}
\* Slip: blanks behind the end of a command are taken for another one.
Next_cmd_Blank(r, c) ==
    IF r.end
    THEN [NewScan EXCEPT !.prev = r.prev, !.before = r.before + r.num, !.at = r.at + 1]
    ELSE r

Next_cmd(r, c) ==
    IF Starts(r, c)
    THEN [NewScan EXCEPT !.prev = r.prev, !.before = r.before + r.num, !.at = r.at + 1]
    ELSE r

-----------------------------------------------------------------------------
(* inner_process_tokens, convert.c.                                        *)

QP_initialize == [mode |-> "idle", esc |-> FALSE, lvl |-> 0, skip |-> FALSE,
                  tag |-> "none", prev |-> FALSE]
QB_initialize == [param |-> -1, dollar |-> 0, ret |-> 0,
                  empty |-> TRUE, brace |-> 0, first |-> FALSE]

\* Slip: a comment ends at the first */, nested or not.
TokenQuoted_Flat(b, c, n) ==
    IF b.mode = "block"
    THEN IF c = "*" /\ n = "/" THEN [b EXCEPT !.mode = "idle", !.lvl = 0, !.skip = TRUE] ELSE b
    ELSE CASE b.mode = "escape" -> [b EXCEPT !.mode = "literal"]
           [] b.mode = "dollar" ->
                IF c = b.tag THEN [b EXCEPT !.mode = "idle", !.tag = "none"] ELSE b
           [] b.mode = "literal" ->
                IF c = "'" THEN [b EXCEPT !.mode = "idle", !.esc = FALSE]
                ELSE IF c = "\\" /\ b.esc THEN [b EXCEPT !.mode = "escape"] ELSE b
           [] b.mode = "dquote" -> [b EXCEPT !.mode = IF c = "\"" THEN "idle" ELSE @]
           [] OTHER -> [b EXCEPT !.mode = IF c = "nl" THEN "idle" ELSE @]

TokenQuoted(b, c, n) ==
    CASE b.mode = "escape" -> [b EXCEPT !.mode = "literal"]
      [] b.mode = "dollar" ->
           IF c = b.tag THEN [b EXCEPT !.mode = "idle", !.tag = "none"] ELSE b
      [] b.mode = "literal" ->
           IF c = "'" THEN [b EXCEPT !.mode = "idle", !.esc = FALSE]
           ELSE IF c = "\\" /\ b.esc THEN [b EXCEPT !.mode = "escape"] ELSE b
      [] b.mode = "dquote" -> [b EXCEPT !.mode = IF c = "\"" THEN "idle" ELSE @]
      [] b.mode = "block" ->
           IF c = "/" /\ n = "*" THEN [b EXCEPT !.lvl = @ + 1, !.skip = TRUE]
           ELSE IF c = "*" /\ n = "/"
                THEN [b EXCEPT !.lvl = @ - 1, !.skip = TRUE,
                               !.mode = IF b.lvl <= 1 THEN "idle" ELSE @]
           ELSE b
      [] b.mode = "line" -> [b EXCEPT !.mode = IF c = "nl" THEN "idle" ELSE @]

\* ResolveOneParam: the next parameter, and in a statement to be prepared the
\* next number.
ResolveOneParam(b) ==
    [b EXCEPT !.mode = "idle", !.param = @ + 1,
              !.dollar = IF conn.how = "prepare" THEN @ + 1 ELSE @]

\* convert_escape: a procedure call, with or without a place for its value.
convert_escape(b, c) ==
    LET started == [b EXCEPT !.mode = "idle", !.brace = @ + 1,
                             !.first = IF b.brace = 0 THEN ~b.empty ELSE @]
    IN  IF c = "{?=call " THEN [started EXCEPT !.param = @ + 1, !.ret = 1] ELSE started

TokenIdle(b, c, n) ==
    CASE c \in {"{call ", "{?=call "} -> convert_escape(b, c)
      [] c = "}" -> [b EXCEPT !.mode = "idle", !.brace = @ - 1]
      [] c = "?" -> ResolveOneParam(b)
      [] c \in Tags -> [b EXCEPT !.mode = "dollar", !.tag = c]
      [] c = "'" -> [b EXCEPT !.mode = "literal", !.esc = conn.escape \/ b.prev]
      [] c = "\"" -> [b EXCEPT !.mode = "dquote"]
      [] c = "/" /\ n = "*" -> [b EXCEPT !.mode = "block", !.lvl = @ + 1]
      [] c = "-" /\ n = "-" -> [b EXCEPT !.mode = "line"]
      [] c = ";" -> [b EXCEPT !.mode = "idle", !.dollar = 0]
      [] c \in Alnum -> [b EXCEPT !.mode = "ident"]
      [] OTHER -> [b EXCEPT !.mode = "idle"]

InIdle(b) == b.mode \in {"idle", "ident"} /\ ~b.skip

inner_process_tokens(b, c, n) ==
    [ (CASE b.skip -> [b EXCEPT !.skip = FALSE]
         [] ~b.skip /\ c = "mb" -> [b EXCEPT !.mode = IF @ = "idle" THEN "ident" ELSE @]
         [] b.mode = "ident" /\ c \in Word -> b
         [] ~b.skip /\ c # "mb" /\ ~InIdle(b) -> TokenQuoted(b, c, n)
         [] OTHER -> TokenIdle(b, c, n))
      EXCEPT !.prev = (c = "E"), !.empty = FALSE ]

\* QB_start_brace and QB_end_brace, which spare the text that begins with one.
Brace(b, c) ==
    IF c = "}" THEN IF b.brace > 1 \/ b.first THEN <<")">> ELSE <<>>
    ELSE IF b.brace > 0 \/ ~b.empty THEN <<"(", "a", " ">> ELSE <<"a", " ">>

Output(b, c) ==
    IF ~InIdle(b) THEN <<c>>
    ELSE IF c \in {"{call ", "{?=call ", "}"} THEN Brace(b, c)
    ELSE IF c = "?" THEN <<Dollars[b.dollar + 1]>>
    ELSE <<c>>

-----------------------------------------------------------------------------
(* ResolveOneParam in its other mode: the value in the place of the marker. *)

Values == {[kind |-> "null", text |-> <<>>]}
          \cup {[kind |-> k, text |-> <<>>] : k \in {"number", "negative"}}
          \cup {[kind |-> "bytea", text |-> <<"\\", "a">>]}
          \cup [kind : {"text"}, text : BoundedSeq(ValueChars, MaxValue)]
NoValue == [kind |-> "none", text |-> <<>>]

Doubled(c) == <<c, c>>
\* Slip: the backslash is left as it is.
convert_special_chars_Quotes(text) ==
    FlattenSeq([i \in 1 .. Len(text) |->
        IF text[i] = "'" THEN Doubled(text[i]) ELSE <<text[i]>>])

convert_special_chars(text) ==
    FlattenSeq([i \in 1 .. Len(text) |->
        IF text[i] = "'" \/ (text[i] = "\\" /\ conn.escape)
        THEN Doubled(text[i]) ELSE <<text[i]>>])
\* The format of servers from 9.0 on: \x and digits.
convert_to_pgbinary(text) == (IF conn.escape THEN <<"\\">> ELSE <<>>) \o text

Literal(v) ==
    LET start == IF conn.escape THEN <<"E", "'">> ELSE <<"'">>
    IN  CASE v.kind = "null" -> <<"a">>
          [] v.kind = "number" -> <<"1">>
          [] v.kind = "negative" -> <<"(", "-", "1", ")">>
          [] v.kind = "bytea" -> start \o convert_to_pgbinary(v.text) \o <<"'">>
          [] v.kind = "text" -> start \o convert_special_chars(v.text) \o <<"'">>

-----------------------------------------------------------------------------
(* The server: the rules of PostgreSQL's lexer.                            *)

NewCommand == [mode |-> "idle", lvl |-> 0, tag |-> "none",
               params |-> 0, ordered |-> TRUE,   \* the $n it met, from 1 on
               raw |-> FALSE,                    \* it met a marker
               semi |-> FALSE,                   \* it met the end of the command
               cont |-> FALSE,                   \* nothing but blanks since a literal
               text |-> <<>>, keep |-> FALSE]    \* what it read between quotes

Got(s, c) == [s EXCEPT !.text = IF s.keep THEN Append(@, c) ELSE @]

Token(s, c) ==
    LET t == [s EXCEPT !.cont = s.cont /\ c \in Blank \cup {"-"} /\ s.mode # "dash"]
    IN  CASE c \in Range(Dollars) ->
               [t EXCEPT !.mode = "param", !.params = @ + 1,
                         !.ordered = @ /\ s.params < Len(Dollars)
                                       /\ Dollars[s.params + 1] = c]
          [] c = "E" -> [t EXCEPT !.mode = "e"]
          [] c \in {"a", "_", "mb", "1"} -> [t EXCEPT !.mode = "word"]
          [] c \in Tags -> [t EXCEPT !.mode = "dollar", !.tag = c]
          [] c = "'" -> [t EXCEPT !.mode = IF conn.escape THEN "ext" ELSE "plain"]
          [] c = "\"" -> [t EXCEPT !.mode = "dquote"]
          [] c = "-" -> [t EXCEPT !.mode = "dash"]
          [] c = "/" -> [t EXCEPT !.mode = "slash"]
          [] c = "?" -> [t EXCEPT !.mode = "idle", !.raw = TRUE]
          [] c = ";" -> [t EXCEPT !.mode = "idle", !.semi = TRUE]
          [] OTHER -> [t EXCEPT !.mode = "idle"]

\* A quote closes a literal unless another one follows.
Lex(s, c) ==
    CASE s.mode \in {"word", "e"} /\ c \in Word \cup {"mb"} -> [s EXCEPT !.mode = "word"]
      [] s.mode = "e" /\ c = "'" -> [s EXCEPT !.mode = "ext", !.cont = FALSE]
      [] s.mode = "dash" /\ c = "-" -> [s EXCEPT !.mode = "line"]
      [] s.mode = "slash" /\ c = "*" -> [s EXCEPT !.mode = "block", !.lvl = 1]
      [] s.mode = "plain" ->
           IF c = "'" THEN [s EXCEPT !.mode = "plain?", !.cont = TRUE] ELSE Got(s, c)
      [] s.mode = "ext" ->
           IF c = "'" THEN [s EXCEPT !.mode = "ext?", !.cont = TRUE]
           ELSE IF c = "\\" THEN [s EXCEPT !.mode = "ext\\"] ELSE Got(s, c)
      [] s.mode = "ext\\" -> [Got(s, c) EXCEPT !.mode = "ext"]
      [] s.mode = "plain?" /\ c = "'" -> [Got(s, c) EXCEPT !.mode = "plain"]
      [] s.mode = "ext?" /\ c = "'" -> [Got(s, c) EXCEPT !.mode = "ext"]
      [] s.mode = "dquote" -> [s EXCEPT !.mode = IF c = "\"" THEN "closed" ELSE @]
      [] s.mode = "dollar" ->
           IF c = s.tag THEN [s EXCEPT !.mode = "closed", !.tag = "none"] ELSE s
      [] s.mode = "line" -> [s EXCEPT !.mode = IF c = "nl" THEN "idle" ELSE @]
      [] s.mode = "block" ->
           [s EXCEPT !.mode = IF c = "/" THEN "block/" ELSE IF c = "*" THEN "block*" ELSE @]
      [] s.mode = "block/" ->
           IF c = "*" THEN [s EXCEPT !.mode = "block", !.lvl = @ + 1]
           ELSE [s EXCEPT !.mode = IF c = "/" THEN @ ELSE "block"]
      [] s.mode = "block*" ->
           IF c = "/" THEN [s EXCEPT !.lvl = @ - 1,
                                     !.mode = IF s.lvl = 1 THEN "idle" ELSE "block"]
           ELSE [s EXCEPT !.mode = IF c = "*" THEN @ ELSE "block"]
      [] OTHER -> Token(s, c)

Between == {"idle", "word", "e", "param", "plain?", "ext?", "dash", "slash", "closed"}

-----------------------------------------------------------------------------
(* What a text may look like.                                              *)

\* A marker, a quote or a tag that stands next to a word, a number, a literal
\* or another marker is no SQL, or reads differently to the driver: b and s
\* have read c, and n would follow.
Apart(b, s, c, n) ==
    /\ n = "?" => s.mode \notin {"word", "e", "param", "plain?", "ext?", "closed"} /\ ~s.cont
    /\ c = "?" => n \notin Word \cup {"mb", "?", "'"}
    /\ c = "}" => n \in Blank \cup {",", ";", "}"}
    /\ n \in Tags => c \notin Tags \cup {"_"}
    /\ n = "'" => /\ ~(c = "E" /\ s.mode = "word")
                  /\ s.mode = "ext?" => conn.escape
                  /\ s.mode \notin {"dash", "plain?", "ext?"} => ~s.cont

Bounded(b, r, n) ==
    /\ n \in {"?", "{?=call "} => r.num < MaxMarkers
    /\ n = ";" => b.brace = 0 /\ r.at < MaxCommands
    /\ n \in {"{call ", "{?=call "} => b.brace < MaxBraces
    /\ n = "}" => b.brace > 0
    /\ n = "{?=call " => whole'.num = 0
    /\ r.end => n # "mb"

Legible(b, r, s, c, n) ==
    /\ r.lvl <= MaxNesting /\ b.lvl <= MaxNesting
    /\ srv.mode = "slash" /\ c = "*" => n # "/"
    /\ b.mode = "escape" => n # "mb"
    /\ InIdle(b) => Apart(b, s, c, n) /\ Bounded(b, r, n)

-----------------------------------------------------------------------------
(* Init and the one action: the next character is read by everyone.        *)

Init ==
    /\ conn \in [how : {"prepare", "values"}, escape : BOOLEAN]
    /\ cur \in Chars \ {"}", "mb"}
    /\ whole = NewScan /\ org = NewScan /\ gen = NewScan
    /\ qb = QP_initialize @@ QB_initialize
    /\ srv = NewCommand /\ val = NoValue

\* Each command of a statement to be prepared is sent by itself.
Sent(p, c, n) ==
    [scan |-> Scan(Next_cmd(p.scan, c), c, n),
     srv |-> Lex(IF Starts(p.scan, c) THEN NewCommand ELSE p.srv, c)]

\* prepareParametersNoDesc.
Prepare(n) ==
    LET read == FoldLeft(LAMBDA p, c : Sent(p, c, n),
                         [scan |-> gen, srv |-> srv], Output(qb, cur))
    IN  /\ gen' = read.scan /\ srv' = read.srv
        /\ UNCHANGED val

\* copy_statement_with_parameters.
Replace ==
    LET sent(out, keep) == [FoldLeft(Lex, [srv EXCEPT !.text = <<>>, !.keep = keep], out)
                            EXCEPT !.keep = FALSE]
    IN  /\ IF InIdle(qb) /\ cur = "?"
           THEN \E v \in Values : val' = v /\ srv' = sent(Literal(v), TRUE)
           ELSE val' = NoValue /\ srv' = sent(Output(qb, cur), FALSE)
        /\ UNCHANGED gen

Feed(n) ==
    /\ whole' = Scan(whole, cur, n)
    /\ org' = Scan(Next_cmd(org, cur), cur, n)
    /\ qb' = inner_process_tokens(qb, cur, n)
    /\ IF conn.how = "prepare" THEN Prepare(n) ELSE Replace
    /\ Legible(qb', org', srv', cur, n)
    /\ cur' = n
    /\ UNCHANGED conn

Next == \E n \in Chars : Feed(n)

Spec == Init /\ [][Next]_vars

-----------------------------------------------------------------------------
(* Properties.                                                             *)

\* SQLNumParams, inner_process_tokens and the server agree on the markers of
\* every text (statement.c 1086, convert.c 4024): the server never meets a
\* question mark that was meant for the driver, each command sent has as many
\* $n as the driver announces for it, and the parameter that goes to a marker
\* is the one the application bound for it.
MarkersAgree ==
    /\ ~srv.raw
    /\ whole.num = org.before + org.num
    /\ whole.num = qb.param + 1
    /\ conn.how = "prepare" =>
         /\ srv.params = org.num - (IF org.before = 0 THEN qb.ret ELSE 0)
         /\ qb.dollar = IF org.end THEN 0 ELSE srv.params

\* prepareParametersNoDesc cuts the text of the application and the one it
\* made of it each at the ends of commands it finds by itself (convert.c 2803,
\* 2820): both cuts fall on the semicolons the server regards as the end of a
\* command, and within each piece the markers are $1, $2, ... in their order.
CommandsAgree ==
    conn.how = "prepare" =>
        /\ org.at = gen.at
        /\ org.end = gen.end /\ org.end = srv.semi
        /\ srv.ordered

\* A value written into the text (convert.c 5391) arrives as it was bound: the
\* server reads all of it and nothing else, whatever is in it and whatever
\* stands before the marker.
ValuesIntact ==
    val.kind # "none" => srv.text = val.text /\ srv.mode \in Between

=============================================================================
