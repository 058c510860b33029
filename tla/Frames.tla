--------------------------------- MODULE Frames ---------------------------------
(***************************************************************************)
(* The frames of the chat connection and of Redis: four bytes with the     *)
(* length of the body, as memcpy leaves a uint32_t, and the body           *)
(* (rpcclient.cpp, chatserver.cc, groupservice.cc).  The items of Codec    *)
(* stand for the bytes of a body; none of them is taken for a zero byte.   *)
(***************************************************************************)
EXTENDS Naturals, Sequences, SequencesExt

CONSTANT Base  \* how many values a byte of the length has

ASSUME BaseAssumption == Base \in Nat \ {0, 1}

Digit(n) == [digit |-> n % Base]
ZeroByte == [digit |-> 0]

(* What send_data.append makes of len, the lowest byte first. *)
LengthBytes(n) == <<Digit(n), Digit(n \div Base), Digit(n \div (Base * Base)),
                    Digit(n \div (Base * Base * Base))>>

Frame(body) == LengthBytes(Len(body)) \o body

(* memcpy(&len, data, 4) *)
LengthIn(s) == s[1].digit + Base * (s[2].digit + Base * (s[3].digit + Base * s[4].digit))

(* A mutant: the length of the body is not looked at. *)
FrameReady_HeaderOnly(buffer) == Len(buffer) >= 4

(* readableBytes() >= 4 + net_header_size *)
FrameReady(buffer) == Len(buffer) >= 4 /\ Len(buffer) >= 4 + LengthIn(buffer)

(* What retrieveAsString takes, and what it leaves. *)
BodyIn(buffer) ==
  LET end == 4 + LengthIn(buffer)
  IN SubSeq(buffer, 5, IF end < Len(buffer) THEN end ELSE Len(buffer))

(* A mutant: peek instead of retrieve. *)
AfterFrame_Peek(buffer) == buffer

AfterFrame(buffer) == SubSeq(buffer, 5 + LengthIn(buffer), Len(buffer))

(* A mutant: the string is written with its size. *)
CString_Whole(s) == s

(* "%s" and row[0] end at the first zero byte. *)
CString(s) ==
  LET zeros == {i \in DOMAIN s : s[i] = ZeroByte}
  IN IF zeros = {} THEN s
     ELSE SubSeq(s, 1, (CHOOSE i \in zeros : \A j \in zeros : i <= j) - 1)

=============================================================================
