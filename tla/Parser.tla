------------------------------- MODULE Parser -------------------------------
(* Parser: core/parsing.py, the coroutine that takes messages with their   *)
(* attachments from a stream that arrives in pieces.  A stream is a        *)
(* sequence of tokens, counters, bodies and primitives, each of several    *)
(* units, and may be cut between any two units.  Between two yields the    *)
(* parser runs alone.  The counter of a group of attachments counts its    *)
(* elements in version 1 and its units in version 2 (kinds counted and     *)
(* sized).  The binary form only changes how a token looks; messages       *)
(* nested in attachments are left out.                                     *)
EXTENDS Naturals, Sequences, SequencesExt

CONSTANTS
  Streams,  \* named sequences of tokens: kind, size, n, of, g
  Framed,   \* whether each stream is taken to hold whole frames
  None

Token(u) == Streams[u.s][u.t]
Units(s) ==
  FlattenSeq([t \in DOMAIN Streams[s] |->
                [i \in 1..Streams[s][t].size |-> [s |-> s, t |-> t, i |-> i]]])

VARIABLES
  stream,  \* name of the stream
  rest,    \* what has not arrived
  ims,     \* what has arrived and is not yet taken
  levels,  \* groups copied out of the stream, innermost last
  framed,  \* groupParsator's framed
  eggs,    \* groupParsator has met a generic group
  open,    \* the counter whose group is waited for
  msg,     \* message whose attachments are being taken
  atts,    \* attachments taken for it
  left,    \* classes of the primitives left in an element of a group
  group,   \* the list in which what is extracted is kept
  pc, waiting,
  handed   \* messages handed on with their attachments
outer == <<framed, eggs>>
taken == <<msg, atts, left, group>>
vars == <<stream, rest, ims, levels, outer, open, taken, pc, waiting, handed>>

Cur == IF levels = <<>> THEN ims ELSE Last(levels).buf
enclosed == \E i \in DOMAIN levels : levels[i].kind \in {"body", "atc"}
Whole == framed \/ \E i \in DOMAIN levels : levels[i].kind = "body"
Front1 == Head(Cur)
kind == Token(Front1).kind
Garbage == Front1.i # 1
Short == Cur = <<>> \/ (~Garbage /\ Len(Cur) < Token(Front1).size)
Sized == levels # <<>> /\ Last(levels).kind = "sized"

(* ctr.byteSize, klas(strip=True): n units leave the innermost buffer.     *)
Without(n) == SubSeq(Cur, n + 1, Len(Cur))
Consume(n) ==
  IF levels = <<>> THEN ims' = Without(n) /\ levels' = levels
  ELSE levels' = [levels EXCEPT ![Len(levels)].buf = Without(n)] /\ ims' = ims
Take == Consume(Token(Front1).size)
Same == UNCHANGED <<stream, rest, outer, open, taken, handed, waiting>>
Goto(label) == pc' = label
Stay == UNCHANGED <<ims, levels>>

-----------------------------------------------------------------------------
(* Groups of attachments: the list each is kept in, and the classes of the *)
(* primitives of an element; a Counter holds indexed signatures.           *)
Kept(list, klas) == [list |-> list, klas |-> klas]
_ControllerIdxSigs == Kept("sigers", <<"Siger">>)
_WitnessIdxSigs == Kept("wigers", <<"Siger">>)
_NonTransReceiptCouples == Kept("cigars", <<"Verfer", "Cigar">>)
_TransIdxSigGroups == Kept("tsgs", <<"Prefixer", "Number", "Diger", "Counter">>)
_TransLastIdxSigGroups == Kept("lsgs", <<"Prefixer", "Counter">>)
_FirstSeenReplayCouples == Kept("frcs", <<"Number", "Dater">>)
_SealSourceCouples == Kept("sscs", <<"Number", "Diger">>)
_SealSourceTriples == Kept("ssts", <<"Prefixer", "Number", "Diger">>)
_TypedDigestSealCouples == Kept("tdcs", <<"Verser", "Noncer">>)
_BlindedStateQuadruples == Kept("bsqs", <<"Diger", "Noncer", "Noncer", "Labeler">>)
_BoundStateSextuples ==
  Kept("bsss", <<"Diger", "Noncer", "Noncer", "Labeler", "Number", "Noncer">>)
_TypedMediaQuadruples == Kept("tmqs", <<"Diger", "Noncer", "Labeler", "Texter">>)
_PathedMaterialCouples == Kept("ptds", <<"Pathed">>)
_ESSRPayloadGroup == Kept("essrs", <<"Texter">>)
Methods ==
  [ControllerIdxSigs |-> _ControllerIdxSigs, WitnessIdxSigs |-> _WitnessIdxSigs,
   NonTransReceiptCouples |-> _NonTransReceiptCouples,
   TransIdxSigGroups |-> _TransIdxSigGroups, TransLastIdxSigGroups |-> _TransLastIdxSigGroups,
   FirstSeenReplayCouples |-> _FirstSeenReplayCouples,
   SealSourceCouples |-> _SealSourceCouples, SealSourceTriples |-> _SealSourceTriples,
   TypedDigestSealCouples |-> _TypedDigestSealCouples,
   BlindedStateQuadruples |-> _BlindedStateQuadruples,
   BoundStateSextuples |-> _BoundStateSextuples,
   TypedMediaQuadruples |-> _TypedMediaQuadruples,
   PathedMaterialCouples |-> _PathedMaterialCouples, ESSRPayloadGroup |-> _ESSRPayloadGroup]

-----------------------------------------------------------------------------
(* Yields and errors.                                                      *)
Wait ==
  /\ waiting' = TRUE
  /\ UNCHANGED <<stream, rest, ims, levels, outer, open, taken, pc, handed>>
Again ==
  /\ framed' = Framed /\ eggs' = FALSE /\ levels' = <<>> /\ Goto("group") /\ waiting' = TRUE
  /\ open' = None /\ msg' = None /\ atts' = {} /\ left' = <<>> /\ group' = None
(* Every error of msgParsator is raised again as an extraction error, and  *)
(* the stream is flushed unless a generic group was met before.            *)
Abort == Again /\ ims' = (IF eggs THEN ims ELSE <<>>) /\ UNCHANGED <<stream, rest, handed>>
(* _extractor, when there is not enough.                                   *)
NotEnoughDropped(abort) == Abort  \* slip
NotEnough(abort) == IF abort THEN Abort ELSE Wait

(* The lists one of which a message must have, by its ilk; without it is   *)
(* dropped.                                                                *)
Required(ilk) ==
  CASE ilk \in {"icp", "rot", "ixn", "dip", "drt"} -> {"sigers"}
    [] ilk = "rct" -> {"cigars", "wigers", "tsgs"}
    [] ilk \in {"rpy", "exn"} -> {"cigars", "tsgs"}
    [] ilk = "qry" -> {"lsgs", "cigars"}
    [] OTHER -> {}
Meets(ilk, a) == Required(ilk) = {} \/ \E x \in a : x.list \in Required(ilk)
msgProcess(m, a) ==
  IF Meets(m.g, a) THEN Append(handed, [msg |-> m.of, atts |-> a]) ELSE handed
Generics == SelectSeq(levels, LAMBDA l : l.kind = "generic")
Deliver ==
  /\ handed' = msgProcess(msg, atts)
  /\ levels' = Generics
  /\ msg' = None /\ atts' = {} /\ left' = <<>> /\ group' = None /\ Goto("group")
  /\ UNCHANGED <<stream, rest, ims, outer, open, waiting>>

-----------------------------------------------------------------------------
(* A group is copied out when all of it has arrived, or at once when the   *)
(* stream is whole; its counter says which.                                *)
Open == /\ open' = [kind |-> kind, n |-> Token(Front1).n] /\ Take /\ Goto("open")
        /\ UNCHANGED <<stream, rest, outer, taken, handed, waiting>>
After(k) == CASE k = "generic" -> "group" [] k = "body" -> "message" [] k = "atc" -> "front"
Smaller(a, b) == IF a <= b THEN a ELSE b
CopyOut ==
  LET n == Smaller(open.n, Len(Cur))
      inner == [kind |-> open.kind, buf |-> SubSeq(Cur, 1, n)]
  IN IF levels = <<>> THEN ims' = Without(n) /\ levels' = <<inner>>
     ELSE ims' = ims /\ levels' = Append([levels EXCEPT ![Len(levels)].buf = Without(n)], inner)
Opening ==
  /\ pc = "open"
  /\ IF Len(Cur) < open.n /\ ~Whole THEN Wait
     ELSE IF open.n = 0 \/ Cur = <<>> THEN Abort
     ELSE /\ CopyOut /\ open' = None /\ Goto(After(open.kind))
          /\ eggs' = (eggs \/ open.kind = "generic")
          /\ framed' = (framed \/ open.kind = "generic")
          /\ UNCHANGED <<stream, rest, taken, handed, waiting>>

(* groupParsator, and parsator around it.                                  *)
Group ==
  /\ pc = "group"
  /\ IF Cur = <<>> /\ levels # <<>>
     THEN levels' = Front(levels) /\ UNCHANGED <<ims, pc>> /\ Same
     ELSE IF Cur = <<>> THEN Again /\ UNCHANGED <<stream, rest, ims, handed>>
     ELSE IF Garbage THEN Abort
     ELSE IF kind = "bytes" THEN Goto("message") /\ Stay /\ Same
     ELSE IF Short THEN NotEnough(framed)
     ELSE IF kind = "generic" THEN Open
     ELSE Goto("message") /\ Stay /\ Same

(* msgParsator: a version, a group that holds a message, then the message. *)
Message ==
  /\ pc = "message"
  /\ IF Cur = <<>> \/ Garbage THEN Abort
     ELSE IF Short THEN NotEnough(Whole)
     ELSE IF kind = "version" THEN Take /\ UNCHANGED pc /\ Same
     ELSE IF kind = "body" THEN Open
     ELSE IF kind = "bytes"
     THEN /\ Take /\ Goto("attach") /\ msg' = Token(Front1) /\ atts' = {}
          /\ left' = <<>> /\ group' = None
          /\ UNCHANGED <<stream, rest, outer, open, handed, waiting>>
     ELSE Abort

(* msgParsator, after the message: its attachments may be enclosed.        *)
Attach ==
  /\ pc = "attach"
  /\ IF Cur = <<>> THEN NotEnough(Whole)
     ELSE IF Garbage THEN Abort
     ELSE IF kind = "bytes" THEN Deliver
     ELSE IF Short THEN NotEnough(Whole)
     ELSE IF kind = "atc" THEN Open ELSE Goto("counter") /\ Stay /\ Same

(* A version at the front of an enclosed group of attachments; anywhere    *)
(* else in it, a version is an error.                                      *)
EnclosedFront ==
  /\ pc = "front"
  /\ IF Short THEN NotEnough(enclosed)
     ELSE IF Garbage THEN Abort
     ELSE /\ Goto("counter") /\ Same
          /\ IF kind = "version" THEN Take ELSE Stay

Elements(g, n) == FlattenSeq([i \in 1..n |-> Methods[g].klas])
Attached ==
  /\ pc = "counter"
  /\ IF Short THEN NotEnough(Whole \/ enclosed)
     ELSE IF Garbage THEN Abort
     ELSE IF kind \in {"generic", "version"} THEN (IF enclosed THEN Abort ELSE Deliver)
     ELSE IF kind = "body" /\ ~enclosed THEN Deliver
     ELSE IF kind = "counted"
     THEN /\ Take /\ Goto("primitive") /\ group' = Token(Front1).g
          /\ left' = Elements(Token(Front1).g, Token(Front1).n)
          /\ UNCHANGED <<stream, rest, outer, open, msg, atts, handed, waiting>>
     ELSE IF kind = "sized"
     THEN /\ Take /\ Goto("sized") /\ group' = Token(Front1).g
          /\ open' = [kind |-> kind, n |-> Token(Front1).n]
          /\ UNCHANGED <<stream, rest, outer, left, msg, atts, handed, waiting>>
     ELSE Abort

(* A version 2 group is copied out once all of it has arrived.             *)
SizedGroup ==
  /\ pc = "sized"
  /\ IF Len(Cur) < open.n THEN NotEnough(Whole \/ enclosed)
     ELSE /\ CopyOut /\ open' = None /\ Goto("primitive")
          /\ UNCHANGED <<stream, rest, outer, taken, handed, waiting>>

(* A primitive of a group is taken; the counter of the signatures in an    *)
(* element is followed by that many.                                       *)
Primitive ==
  /\ pc = "primitive" /\ left # <<>>
  /\ IF Short THEN NotEnough(Whole \/ enclosed \/ Sized)
     ELSE IF Garbage \/ kind # Head(left) THEN Abort
     ELSE /\ Take /\ atts' = atts \cup {[list |-> Methods[group].list, t |-> Front1.t]}
          /\ left' = (IF kind = "Counter" THEN Elements("ControllerIdxSigs", Token(Front1).n) ELSE <<>>)
                     \o Tail(left)
          /\ UNCHANGED <<stream, rest, outer, open, msg, group, pc, handed, waiting>>
(* After an element the next one of a sized group; after the last, the     *)
(* next group or the end of the message.                                   *)
Ended ==
  /\ pc = "primitive" /\ left = <<>>
  /\ IF Sized
     THEN IF Cur = <<>>
          THEN levels' = Front(levels) /\ UNCHANGED <<ims, pc>> /\ Same
          ELSE /\ left' = Methods[group].klas
               /\ UNCHANGED <<stream, rest, ims, levels, outer, open, msg, atts, group, pc, handed, waiting>>
     ELSE IF Cur = <<>> \/ (~enclosed /\ ~Garbage /\ kind = "bytes") THEN Deliver
     ELSE Goto("counter") /\ Stay /\ Same

-----------------------------------------------------------------------------
Run == ~waiting /\ (Group \/ Opening \/ Message \/ Attach \/ EnclosedFront \/ Attached
                    \/ SizedGroup \/ Primitive \/ Ended)
(* The next pass of the parser's task; it runs with what has arrived.      *)
Resume ==
  /\ waiting /\ waiting' = FALSE
  /\ UNCHANGED <<stream, rest, ims, levels, outer, open, taken, pc, handed>>
(* Bytes arrive, in a piece of any length.                                 *)
Arrive(n) ==
  /\ waiting /\ n \in 1..Len(rest)
  /\ rest' = SubSeq(rest, n + 1, Len(rest)) /\ ims' = ims \o SubSeq(rest, 1, n)
  /\ UNCHANGED <<stream, levels, outer, open, taken, pc, waiting, handed>>

Init ==
  /\ stream \in DOMAIN Streams /\ rest = Units(stream)
  /\ ims = <<>> /\ levels = <<>> /\ framed = Framed /\ eggs = FALSE /\ open = None
  /\ msg = None /\ atts = {} /\ left = <<>> /\ group = None /\ pc = "group" /\ waiting = TRUE /\ handed = <<>>
Next == Run \/ Resume \/ \E n \in 1..Len(rest) : Arrive(n)
Spec == Init /\ [][Next]_vars /\ WF_vars(Run \/ Resume \/ \E n \in 1..Len(rest) : Arrive(n))

-----------------------------------------------------------------------------
TypeOK ==
  /\ stream \in DOMAIN Streams /\ framed \in BOOLEAN /\ eggs \in BOOLEAN /\ waiting \in BOOLEAN
  /\ pc \in {"group", "open", "message", "attach", "front", "counter", "sized", "primitive"}
  /\ left # <<>> => group \in DOMAIN Methods
  /\ Len(rest) + Len(ims) <= Len(Units(stream))

(* The primitives of a message's attachments, each in the list that the    *)
(* last group counter before it names.                                     *)
Tokens == Streams[stream]
Counters == {"counted", "sized"}
Frames == Counters \cup {"bytes", "atc", "body", "generic", "version"}
GroupOf(t) ==
  LET before == {u \in 1..t : Tokens[u].kind \in Counters}
  IN  Tokens[CHOOSE u \in before : \A w \in before : w <= u].g
Own(m) ==
  {[list |-> Methods[GroupOf(t)].list, t |-> t] :
     t \in {u \in DOMAIN Tokens : Tokens[u].kind \notin Frames /\ Tokens[u].of = m}}
Place(m) == CHOOSE t \in DOMAIN Tokens : Tokens[t].kind = "bytes" /\ Tokens[t].of = m
(* However a stream is cut or damaged, a message is handed on once, in the *)
(* order of the stream, with no attachment of another message and every    *)
(* attachment in its own list (msgParsator).                               *)
OwnAttachments ==
  /\ \A i \in DOMAIN handed : handed[i].atts \subseteq Own(handed[i].msg)
  /\ \A i, j \in DOMAIN handed : i < j => Place(handed[i].msg) < Place(handed[j].msg)

(* A stream of messages whose attachments are enclosed is parsed alike     *)
(* however it is cut, when it is not taken to be whole (_extractor).       *)
Messages == SelectSeq([t \in DOMAIN Tokens |-> Tokens[t]], LAMBDA k : k.kind = "bytes")
Parsed ==
  LET whole == SelectSeq(Messages, LAMBDA k : Meets(k.g, Own(k.of)))
  IN  [i \in DOMAIN whole |-> [msg |-> whole[i].of, atts |-> Own(whole[i].of)]]
CutsIrrelevant(plain) ==
  stream \in plain =>
    /\ IsPrefix(handed, Parsed)
    /\ (rest = <<>> /\ waiting /\ ims = <<>>) => handed = Parsed

(* After an error in a sized group of attachments the messages after it    *)
(* are parsed (allParsator).                                               *)
Sound(m) == \A t \in DOMAIN Tokens : Tokens[t].of = m => Tokens[t].kind # "bad"
Resumed ==
  (rest = <<>> /\ waiting /\ ims = <<>>) =>
    \A i \in DOMAIN Messages :
      Sound(Messages[i].of) => \E j \in DOMAIN handed : handed[j].msg = Messages[i].of
=============================================================================
