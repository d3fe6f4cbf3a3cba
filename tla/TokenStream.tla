----------------------------- MODULE TokenStream -----------------------------
(***************************************************************************)
(* What the Preprocessor promises the Parser: one stream of tokens.  Lex   *)
(* takes the first, LookAhead reads one without taking it, a mark saves    *)
(* the whole stream and Backtrack restores it; a token entered or          *)
(* annotated under a mark stays in the stream the mark saved.  There is no *)
(* cache, no lexer stack and no caching mode here.                         *)
(***************************************************************************)
EXTENDS Integers, Sequences, SequencesExt

CONSTANTS Inputs,      \* the possible contents of a whole translation unit
          Plain,       \* tokens of the source
          Synthesized, \* tokens the parser makes
          Eof, Unknown, NoTok,
          Streams      \* token sequences the parser re-enters

VARIABLES
  future,    \* the tokens Lex will return
  marks,     \* the futures the tentative parsing actions in progress saved
  tok,       \* the parser's current token
  prevToks,  \* the current token at each mark
  peeked     \* last LookAhead still standing: distance and token

vars == <<future, marks, tok, prevToks, peeked>>

NoPeek == [n |-> 0, t |-> NoTok]

Init ==
  /\ future \in Inputs
  /\ marks = <<>>
  /\ tok = Unknown
  /\ prevToks = <<>>
  /\ peeked = NoPeek

(* How many tokens have been taken since a mark saved the future m.         *)
Taken(m) == Len(m) - Len(future)

(* Replacing the last k tokens taken since each mark by s: a mark set later *)
(* than some of them keeps what it still sees.                              *)
Rewrite(k, s) ==
  marks' = [i \in DOMAIN marks |->
              IF Taken(marks[i]) >= k
              THEN SubSeq(marks[i], 1, Taken(marks[i]) - k) \o s \o future
              ELSE marks[i]]

Lex ==
  /\ future # <<>>
  /\ tok' = Head(future)
  /\ future' = Tail(future)
  /\ peeked' = NoPeek
  /\ UNCHANGED <<marks, prevToks>>

LookAhead(n) ==
  /\ n < Len(future)
  /\ peeked' = [n |-> n, t |-> future[n + 1]]
  /\ UNCHANGED <<future, marks, tok, prevToks>>

Enable ==
  /\ marks' = Append(marks, future)
  /\ prevToks' = Append(prevToks, tok)
  /\ UNCHANGED <<future, tok, peeked>>

Commit ==
  /\ marks # <<>>
  /\ marks' = Front(marks)
  /\ prevToks' = Front(prevToks)
  /\ UNCHANGED <<future, tok, peeked>>

Backtrack ==
  /\ marks # <<>>
  /\ future' = Last(marks)
  /\ tok' = Last(prevToks)
  /\ marks' = Front(marks)
  /\ prevToks' = Front(prevToks)
  /\ peeked' = NoPeek

(* The last n tokens since the innermost mark are to be lexed again.        *)
Revert ==
  /\ marks # <<>>
  /\ \E n \in 1..Taken(Last(marks)) :
       future' = SubSeq(Last(marks), Taken(Last(marks)) - n + 1, Len(Last(marks)))
  /\ tok' \in {tok} \cup Synthesized
  /\ peeked' = NoPeek
  /\ UNCHANGED <<marks, prevToks>>

Enter ==
  /\ \E e \in {tok} \cup Synthesized :
       /\ future' = <<e>> \o future
       /\ Rewrite(0, <<e>>)
  /\ tok' \in Synthesized
  /\ peeked' = NoPeek
  /\ UNCHANGED prevToks

(* Stored tokens and the current one are put in front of the stream.        *)
EnterStream ==
  /\ marks = <<>>
  /\ \E s \in Streams : future' = Append(s, tok) \o future
  /\ peeked' = NoPeek
  /\ UNCHANGED <<marks, tok, prevToks>>

(* An annotation takes the place of the last k tokens, a correction that of *)
(* the last one.  Tokens no mark saved are never lexed again.               *)
Annotate ==
  /\ \E t \in Synthesized :
       /\ \E k \in {1} \cup (IF marks = <<>> THEN {} ELSE 1..Taken(Last(marks))) :
            Rewrite(k, <<t>>)
       /\ tok' = t
  /\ UNCHANGED <<future, prevToks, peeked>>

Next ==
  \/ Lex
  \/ \E n \in 0..Len(future) : LookAhead(n)
  \/ Enable
  \/ Commit
  \/ Backtrack
  \/ Revert
  \/ Enter
  \/ EnterStream
  \/ Annotate

Spec == Init /\ [][Next]_vars
=============================================================================
