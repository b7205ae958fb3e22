---------------------------- MODULE InlineRecord ----------------------------
(***************************************************************************)
(* Inline snapshots under update mode: what one run of a matches_inline()  *)
(* call leaves behind, what is decided for the call from all its runs, and *)
(* the rewriting of the file it is written in.                             *)
(*                                                                         *)
(* A source file is a sequence of tokens.  The token of a call stands for  *)
(* everything up to the bracket that opens its arguments, so the literal   *)
(* of the call is the token after it, or goes there.  Offsets count the    *)
(* tokens before a place, as Python counts characters.                     *)
(***************************************************************************)
EXTENDS Naturals, Sequences, FiniteSets, SequencesExt

CONSTANTS
  Text,       \* literals
  NoText,     \* the None of a value that is no literal, or of a call with nothing to write
  Comma,      \* the separator put after a literal where arguments follow
  Call,       \* the matches_inline() calls of the source, which are tokens of it
  Empty,      \* the calls written without a literal
  WithArgs    \* the empty ones that are given other arguments

ASSUME CallsAssumption == WithArgs \subseteq Empty /\ Empty \subseteq Call /\ NoText \notin Text

Literal == Text \cup {NoText}

-----------------------------------------------------------------------------
(* Where a call is *)

\* The place of a call in a file: the range of it a literal replaces, empty for an insertion.
Place(content, call) ==
  LET at == CHOOSE i \in DOMAIN content : content[i] = call
  IN  <<at, IF call \in Empty THEN at ELSE at + 1>>

CallAt(content, place) == content[place[1]]

\* What is put there for a literal.
Inserted(call, text) == IF call \in WithArgs THEN <<text, Comma>> ELSE <<text>>

-----------------------------------------------------------------------------
(* A run: text, stale, source, later; `takes` are the texts its comparison  *)
(* passes for now, `drifts` those it would pass for at the end of the       *)
(* session, which can differ where it calls functions of the test's; and    *)
(* `judged` those it was asked about while it ran.                          *)

\* A slip: any run may be asked later, one that compares by functions of the test's too.
AskedLater(text, pure) == text # NoText

\* Whether a run may still be asked at the end of the session.
MayBeAskedLater(text, pure) == pure /\ text # NoText

Noted(runs, run) ==
  LET all   == Append(runs, run)
      asked == {all[i].text : i \in {j \in DOMAIN all : j = Len(all) \/ all[j].stale}} \ {NoText}
  IN  IF run.later THEN all ELSE [all EXCEPT ![Len(all)].judged = asked]

TakenBy(run, text) ==
  IF text \in run.judged THEN text \in run.takes ELSE run.later /\ text \in run.drifts

TakenByAll(runs, text) == \A i \in DOMAIN runs : TakenBy(runs[i], text)

\* The runs that ask for a text, and those of them whose text every run takes.
Asking(runs)  == {i \in DOMAIN runs : runs[i].stale /\ runs[i].text # NoText}
Fitting(runs) == {i \in Asking(runs) : TakenByAll(runs, runs[i].text)}

\* The first text asked for that every run takes.
Settled(runs) ==
  [written |-> IF Fitting(runs) = {} THEN NoText ELSE runs[Min(Fitting(runs))].text,
   settled |-> Asking(runs) = {} \/ Fitting(runs) # {}]

Held(runs) ==
  LET texts == {runs[i].text : i \in DOMAIN runs}
  IN  IF \E text \in Text : texts = {text} /\ TakenByAll(runs, text)
      THEN CHOOSE text \in Text : text \in texts ELSE NoText

\* One row of shipped(): what a process saw of the call at a place of a file, settled as far as it can.
Row(file, place, runs) ==
  LET one == Settled(runs)
  IN  [file |-> file, place |-> place, written |-> one.written, settled |-> one.settled,
       texts |-> {runs[i].text : i \in DOMAIN runs}, sources |-> {runs[i].source : i \in DOMAIN runs},
       held |-> IF one.written # NoText THEN one.written ELSE Held(runs)]

\* shipped(): seen holds the runs by file and place.
Shipped(seen) == {Row(site[1], site[2], seen[site]) : site \in DOMAIN seen}

-----------------------------------------------------------------------------
(* What a call gets written, from the rows of every process that saw it *)

Fine == "fine"

WrittenOf(rows) == {row.written : row \in rows} \ {NoText}

\* A slip: workers that settled a call differently are taken as one that settled nothing.
DecidedLightly(rows) ==
  IF \E row \in rows : ~row.settled THEN [text |-> NoText, why |-> "no_literal_for_all"]
  ELSE IF \E text \in WrittenOf(rows) : \A row \in rows : row.held = text
  THEN [text |-> CHOOSE text \in WrittenOf(rows) : \A row \in rows : row.held = text, why |-> Fine]
  ELSE [text |-> NoText, why |-> Fine]

Decided(rows) ==
  LET texts == UNION {row.texts : row \in rows}
  IN  IF \E row \in rows : ~row.settled
      THEN [text |-> NoText,
            why  |-> IF Cardinality(texts) = 1 /\ texts # {NoText} THEN "not_by_its_own_options"
                     ELSE "no_literal_for_all"]
      ELSE IF WrittenOf(rows) = {} THEN [text |-> NoText, why |-> Fine]
      ELSE IF \E text \in WrittenOf(rows) : WrittenOf(rows) = {text} /\ \A row \in rows : row.held = text
      THEN [text |-> CHOOSE text \in WrittenOf(rows) : TRUE, why |-> Fine]
      ELSE [text |-> NoText, why |-> "not_alike_in_every_worker"]

-----------------------------------------------------------------------------
(* Writing one file *)

Edits(decided) == {place \in DOMAIN decided : decided[place].text # NoText /\ decided[place].why = Fine}

\* The file with the literals in place, put there from the last offset to the first, so that no offset moves:
\* what it is once those from an offset on are.
Rewritten(content, decided) ==
  LET At(offset) == {place \in Edits(decided) : place[1] = offset}
      text[offset \in 1 .. Len(content) + 1] ==
        IF offset > Len(content) THEN content
        ELSE IF At(offset) = {} THEN text[offset + 1]
        ELSE LET place == CHOOSE place \in At(offset) : TRUE
             IN  SubSeq(text[offset + 1], 1, place[1])
                   \o Inserted(CallAt(content, place), decided[place].text)
                   \o SubSeq(text[offset + 1], place[2] + 1, Len(text[offset + 1]))
  IN  text[1]

\* What can go wrong when a file is read, or written once every literal is decided.
ReadFault  == {"unreadable"}
WriteFault == {"unparsable", "unencodable", "unwritten"}
NoFault    == "none"

\* A file with nothing to write and nothing to report is not opened.
Concerned(decided) == \E place \in DOMAIN decided : decided[place].text # NoText \/ decided[place].why # Fine

\* _written() and _rewritten(): the file as it is left, and the problems, each a file and what is wrong.
\* A write the system fails at can leave any part of the new text, here as much as `cut` says.
Written(file, content, decided, sources, within, fault, cut) ==
  LET whole    == Rewritten(content, decided)
      problems == {<<file, decided[place].why>> : place \in DOMAIN decided} \ {<<file, Fine>>}
  IN  IF ~Concerned(decided) THEN [content |-> content, problems |-> {}]
      ELSE IF ~within THEN [content |-> content, problems |-> {<<file, "outside">>}]
      ELSE IF fault \in ReadFault THEN [content |-> content, problems |-> {<<file, fault>>}]
      ELSE IF sources # {content} THEN [content |-> content, problems |-> {<<file, "changed">>}]
      ELSE IF fault \in WriteFault /\ Edits(decided) # {}
      THEN [content |-> IF fault = "unwritten" THEN SubSeq(whole, 1, cut) ELSE content,
            problems |-> problems \cup {<<file, fault>>}]
      ELSE [content |-> whole, problems |-> problems]

-----------------------------------------------------------------------------
(* Reference definitions *)

\* The file with a literal at some of its calls and nothing else moved, said token by token: what it is from one on.
Spliced(content, literal) ==
  LET Given(n)    == n > 0 /\ content[n] \in Call /\ literal[content[n]] # NoText
      Token(n)    == IF Given(n - 1) /\ content[n - 1] \notin Empty THEN literal[content[n - 1]] ELSE content[n]
      Put(n)      == IF Given(n) /\ content[n] \in Empty THEN Inserted(content[n], literal[content[n]]) ELSE <<>>
      from[n \in 1 .. Len(content) + 1] ==
        IF n > Len(content) THEN <<>> ELSE <<Token(n)>> \o (Put(n) \o from[n + 1])
  IN  from[1]

\* The literal a call holds.
LiteralOf(content, call) ==
  LET at == CHOOSE i \in DOMAIN content : content[i] = call IN content[at + 1]

=============================================================================
