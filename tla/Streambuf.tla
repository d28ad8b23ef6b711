------------------------------ MODULE Streambuf ------------------------------
(***************************************************************************)
(* streambuf_base<Stream> (streambuf.hpp): a std::streambuf over an asio   *)
(* stream whose reads and writes are async operations completed with       *)
(* asio::yield, so the calling fiber is parked until the completion.       *)
(*                                                                         *)
(* One fiber uses the streambuf.  Bytes are abstracted to their position   *)
(* in their stream: the user's n-th byte written is n, the peer's n-th     *)
(* byte is n, and the never-written put-back area reads as Nul.  The peer  *)
(* is an echo server (as in test_tcp_stream): it answers one byte for each *)
(* byte it received.  A connection reset (Reset) is the fault: afterwards  *)
(* every async operation completes with an error.                          *)
(***************************************************************************)
EXTENDS Integers, Sequences, SequencesExt

CONSTANTS
    MaxW,      \* bytes the user writes
    PutCap,    \* buffer_size of the put area
    GetCap,    \* buffer_size - putback_max: bytes one async_read_some fills
    PutbackMax,\* putback_max
    Duplex     \* duplex_mode_ ("half" is the default)

ASSUME MaxW \in Nat /\ PutCap \in Nat \ {0} /\ GetCap \in Nat \ {0}
ASSUME PutbackMax \in Nat /\ Duplex \in {"half", "full"}

Eof == -1
Nul == 0

VARIABLES
    pbuf,       \* the put area [pbase, pptr)
    unbuffered, \* unbuffered_
    garea,      \* the get area [eback + putback_max, egptr)
    gpos,       \* gptr - (eback + putback_max)
    pc,         \* where the fiber is: idle, parked in overflow or underflow
    ret,        \* the operation that entered overflow / underflow
    c,          \* overflow's argument c
    ptr,        \* overflow's local ptr, as an offset from pbase
    wire,       \* bytes the peer has received
    inq,        \* bytes the peer has sent that no read has taken yet
    sent,       \* bytes the peer has sent
    broken,     \* the connection was reset
    written,    \* bytes the streambuf has accepted from the user
    cursor,     \* the user's position in the input stream
    got         \* the byte the last sbumpc returned, Eof if none

vars == <<pbuf, unbuffered, garea, gpos, pc, ret, c, ptr, wire, inq, sent,
          broken, written, cursor, got>>

Rets == {"none", "put", "sync", "get", "avail", "dtor"}

StreamTypeOK ==
    /\ pbuf \in Seq(1..MaxW) /\ Len(pbuf) <= PutCap
    /\ unbuffered \in BOOLEAN
    /\ garea \in Seq(1..MaxW) /\ Len(garea) <= GetCap
    /\ gpos \in -PutbackMax..GetCap
    /\ pc \in {"idle", "flushing", "reading", "gone"}
    /\ ret \in Rets
    /\ c \in 1..MaxW \cup {Eof}
    /\ ptr \in 0..PutCap
    /\ wire \in Seq(1..MaxW) /\ inq \in Seq(1..MaxW)
    /\ sent \in 0..MaxW /\ broken \in BOOLEAN
    /\ written \in 0..MaxW /\ cursor \in 0..MaxW
    /\ got \in 0..MaxW \cup {Eof}

(* The constructors' init_buffers: empty get area after the put-back      *)
(* area, full-size empty put area.                                        *)
Init ==
    /\ pbuf = <<>> /\ unbuffered = FALSE
    /\ garea = <<>> /\ gpos = 0
    /\ pc = "idle" /\ ret = "none" /\ c = Eof /\ ptr = 0
    /\ wire = <<>> /\ inq = <<>> /\ sent = 0 /\ broken = FALSE
    /\ written = 0 /\ cursor = 0 /\ got = Eof

(* The byte at gptr + i: the put-back area below the get area is never    *)
(* written by underflow and holds Nul.                                    *)
Byte(i) == IF i >= 0 THEN garea[i + 1] ELSE Nul

(* What overflow still has to write: the rest of the put area, or in     *)
(* unbuffered mode the single character c.                               *)
Pending ==
    IF unbuffered THEN IF c = Eof THEN <<>> ELSE <<c>>
                  ELSE SubSeq(pbuf, ptr + 1, Len(pbuf))

userVars == <<written, cursor, got>>
peerVars == <<wire, inq, sent, broken>>

(* Entering overflow(ch) on behalf of operation r; the loop starts at     *)
(* pbase.                                                                  *)
Overflow(ch, r) == pc' = "flushing" /\ c' = ch /\ ret' = r /\ ptr' = 0

\* Mutant of Underflow: the half_duplex sync() is skipped.
UnderflowSkipsSync(r) == pc' = "reading" /\ ret' = r /\ UNCHANGED <<c, ptr>>

(* underflow(): in half_duplex mode sync() first, then read when the get  *)
(* area is used up.                                                       *)
Underflow(r) ==
    IF Duplex = "half" THEN Overflow(Eof, r)
    ELSE pc' = "reading" /\ ret' = r /\ UNCHANGED <<c, ptr>>

(* Where overflow returns to: sputc and sync return to the user, the      *)
(* destructor ends the object, and underflow goes on to read when the get *)
(* area is used up (it returns eof otherwise).                            *)
AfterOverflow ==
    pc' = CASE ret \in {"put", "sync"} -> "idle"
            [] ret = "dtor"            -> "gone"
            [] OTHER -> IF gpos = Len(garea) THEN "reading" ELSE "idle"

\* Mutant of Put: the room check lets pptr run one past epptr.
PutOffByOne ==
    /\ pc = "idle" /\ written < MaxW
    /\ IF ~unbuffered /\ Len(pbuf) <= PutCap
         THEN /\ pbuf' = Append(pbuf, written + 1)
              /\ written' = written + 1
              /\ UNCHANGED <<pc, ret, c, ptr>>
         ELSE Overflow(written + 1, "put") /\ UNCHANGED <<pbuf, written>>
    /\ UNCHANGED <<unbuffered, garea, gpos, peerVars, cursor, got>>

(* sputc(ch) with ch the user's next byte: store it while the put area   *)
(* has room, otherwise (and always when unbuffered) call overflow(ch).   *)
Put ==
    /\ pc = "idle" /\ written < MaxW
    /\ IF ~unbuffered /\ Len(pbuf) < PutCap
         THEN /\ pbuf' = Append(pbuf, written + 1)
              /\ written' = written + 1
              /\ UNCHANGED <<pc, ret, c, ptr>>
         ELSE Overflow(written + 1, "put") /\ UNCHANGED <<pbuf, written>>
    /\ UNCHANGED <<unbuffered, garea, gpos, peerVars, cursor, got>>

(* pubsync(): sync() is overflow(eof).                                   *)
Sync ==
    /\ pc = "idle"
    /\ Overflow(Eof, "sync")
    /\ UNCHANGED <<pbuf, unbuffered, garea, gpos, peerVars, userVars>>

\* Mutant of WriteSome: ptr is not advanced past the bytes written.
WriteSomeStays ==
    /\ pc = "flushing" /\ ~unbuffered /\ ~broken
    /\ \E n \in 1..Len(Pending) : wire' = wire \o SubSeq(Pending, 1, n)
    /\ UNCHANGED <<pbuf, unbuffered, garea, gpos, pc, ret, c, ptr, inq, sent,
                   broken, userVars>>

(* One turn of overflow's loop: async_write_some of [ptr, pptr) completes *)
(* with n bytes and ptr advances past them.                               *)
WriteSome ==
    /\ pc = "flushing" /\ ~unbuffered /\ ~broken
    /\ \E n \in 1..Len(Pending) :
         /\ wire' = wire \o SubSeq(Pending, 1, n)
         /\ ptr' = ptr + n
    /\ UNCHANGED <<pbuf, unbuffered, garea, gpos, pc, ret, c, inq, sent,
                   broken, userVars>>

(* Unbuffered overflow(c): one async_write_some of c, which returns c.   *)
WriteChar ==
    /\ pc = "flushing" /\ unbuffered /\ c # Eof /\ ~broken
    /\ wire' = Append(wire, c)
    /\ written' = written + 1
    /\ AfterOverflow
    /\ UNCHANGED <<pbuf, unbuffered, garea, gpos, ret, c, ptr, inq, sent,
                   broken, cursor, got>>

(* A write completes with an error: overflow returns eof at once, the    *)
(* put area keeps what it held and the local ptr is dropped.             *)
WriteFails ==
    /\ pc = "flushing" /\ Pending # <<>> /\ broken
    /\ ptr' = 0
    /\ AfterOverflow
    /\ UNCHANGED <<pbuf, unbuffered, garea, gpos, ret, c, peerVars, userVars>>

(* The loop has written everything: setp resets the put area, and c is   *)
(* stored in it unless it is eof.  Unbuffered overflow(eof) returns here  *)
(* without writing.                                                       *)
OverflowEnds ==
    /\ pc = "flushing" /\ Pending = <<>>
    /\ IF unbuffered THEN UNCHANGED <<pbuf, written>>
       ELSE /\ pbuf' = IF c = Eof THEN <<>> ELSE <<c>>
            /\ written' = IF c = Eof THEN written ELSE written + 1
    /\ ptr' = 0
    /\ AfterOverflow
    /\ UNCHANGED <<unbuffered, garea, gpos, ret, c, peerVars, cursor, got>>

(* sbumpc(): take the byte at gptr, or uflow() through underflow() when  *)
(* the get area is used up.  The user reads only answers it is owed.     *)
Get ==
    /\ pc = "idle" /\ cursor < written
    /\ IF gpos < Len(garea)
         THEN /\ got' = Byte(gpos)
              /\ gpos' = gpos + 1
              /\ cursor' = cursor + 1
              /\ UNCHANGED <<pc, ret, c, ptr>>
         ELSE Underflow("get") /\ UNCHANGED <<gpos, cursor, got>>
    /\ UNCHANGED <<pbuf, unbuffered, garea, peerVars, written>>

(* in_avail() with the get area used up calls showmanyc(), which calls   *)
(* underflow() and answers egptr() - gptr().                              *)
InAvail ==
    /\ pc = "idle" /\ cursor < written /\ gpos = Len(garea)
    /\ Underflow("avail")
    /\ UNCHANGED <<pbuf, unbuffered, garea, gpos, peerVars, userVars>>

\* Mutant of ReadSome: uflow() returns the first byte without moving gptr.
ReadSomeNoBump ==
    /\ pc = "reading" /\ ~broken
    /\ \E n \in 1..Len(inq) :
         /\ n <= GetCap
         /\ garea' = SubSeq(inq, 1, n)
         /\ inq' = SubSeq(inq, n + 1, Len(inq))
         /\ gpos' = 0
         /\ IF ret = "get" THEN got' = inq[1] /\ cursor' = cursor + 1
                           ELSE UNCHANGED <<cursor, got>>
    /\ pc' = "idle"
    /\ UNCHANGED <<pbuf, unbuffered, ret, c, ptr, wire, sent, broken, written>>

(* underflow's async_read_some completes with n bytes: setg makes them   *)
(* the get area, gptr at its start; sbumpc's uflow() then takes the      *)
(* first one, showmanyc() just returns.                                  *)
ReadSome ==
    /\ pc = "reading" /\ ~broken
    /\ \E n \in 1..Len(inq) :
         /\ n <= GetCap
         /\ garea' = SubSeq(inq, 1, n)
         /\ inq' = SubSeq(inq, n + 1, Len(inq))
         /\ IF ret = "get"
              THEN got' = inq[1] /\ gpos' = 1 /\ cursor' = cursor + 1
              ELSE gpos' = 0 /\ UNCHANGED <<cursor, got>>
    /\ pc' = "idle"
    /\ UNCHANGED <<pbuf, unbuffered, ret, c, ptr, wire, sent, broken, written>>

(* The read completes with an error (or 0 bytes): underflow returns eof  *)
(* and leaves the get area as it was.                                    *)
ReadFails ==
    /\ pc = "reading" /\ broken
    /\ pc' = "idle"
    /\ got' = IF ret = "get" THEN Eof ELSE got
    /\ UNCHANGED <<pbuf, unbuffered, garea, gpos, ret, c, ptr, peerVars,
                   written, cursor>>

(* pubseekoff(off, cur, in): gptr moves by off when it stays inside the  *)
(* get area, never into the put-back area nor onto egptr.                *)
Seek(off) ==
    /\ pc = "idle"
    /\ gpos + off >= 0
    /\ gpos + off < Len(garea)
    /\ gpos' = gpos + off
    /\ cursor' = cursor + off
    /\ got' = Eof
    /\ UNCHANGED <<pbuf, unbuffered, garea, pc, ret, c, ptr, peerVars, written>>

(* pubsetbuf(0, 0) with nothing buffered switches to unbuffered output.  *)
SetBuf ==
    /\ pc = "idle" /\ pbuf = <<>> /\ ~unbuffered
    /\ unbuffered' = TRUE
    /\ UNCHANGED <<pbuf, garea, gpos, pc, ret, c, ptr, peerVars, userVars>>

(* ~streambuf_base: overflow(eof) flushes what is buffered.              *)
Destroy ==
    /\ pc = "idle"
    /\ IF pbuf # <<>> THEN Overflow(Eof, "dtor")
       ELSE pc' = "gone" /\ UNCHANGED <<ret, c, ptr>>
    /\ UNCHANGED <<pbuf, unbuffered, garea, gpos, peerVars, userVars>>

(* The echo peer answers a byte it has received.                         *)
PeerSend ==
    /\ ~broken /\ sent < Len(wire)
    /\ inq' = Append(inq, sent + 1)
    /\ sent' = sent + 1
    /\ UNCHANGED <<pbuf, unbuffered, garea, gpos, pc, ret, c, ptr, wire,
                   broken, userVars>>

(* The connection is reset: every later async operation fails.           *)
Reset ==
    /\ ~broken
    /\ broken' = TRUE
    /\ UNCHANGED <<pbuf, unbuffered, garea, gpos, pc, ret, c, ptr, wire, inq,
                   sent, userVars>>

Terminated == pc = "gone" /\ UNCHANGED vars

UserOp ==
    Put \/ Sync \/ Get \/ InAvail \/ SetBuf \/ Destroy
    \/ \E off \in {-1, 1} : Seek(off)

(* Completions of the async operations the fiber is parked on.           *)
Completion ==
    WriteSome \/ WriteChar \/ WriteFails \/ OverflowEnds \/ ReadSome \/ ReadFails

Next == UserOp \/ Completion \/ PeerSend \/ Reset \/ Terminated

(* asio completes an operation that can complete, and the echo peer      *)
(* answers; the user and the reset are not forced.                       *)
Spec == Init /\ [][Next]_vars /\ WF_vars(Completion) /\ WF_vars(PeerSend)

Written == [i \in 1..written |-> i]

PutArea == IF unbuffered THEN <<>> ELSE SubSeq(pbuf, ptr + 1, Len(pbuf))

(* Output is neither lost, duplicated nor reordered by overflow's loop   *)
(* of partial async_write_some completions, setp and the unbuffered      *)
(* switch: the peer has received a prefix of what the streambuf accepted,*)
(* and while the connection is up, exactly what it accepted minus what   *)
(* is still unsent in the put area.                                      *)
NoLossNoDup ==
    /\ IsPrefix(wire, Written)
    /\ ~broken => wire \o PutArea = Written

(* Every byte sbumpc returns is the peer's byte at the user's position,  *)
(* across underflow refills, seekoff moves inside the get area and       *)
(* showmanyc refills.                                                    *)
ReadsInOrder == got # Eof => got = cursor

(* A read the user is owed an answer for returns: in half_duplex mode    *)
(* underflow's sync() pushes the request out before async_read_some      *)
(* waits, so the echo peer can answer.                                   *)
GetReturns ==
    (pc \in {"flushing", "reading"} /\ ret \in {"get", "avail"}) ~> pc = "idle"
====
