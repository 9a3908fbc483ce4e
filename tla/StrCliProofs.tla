---------------------------- MODULE StrCliProofs ----------------------------
(***************************************************************************)
(* Proofs about StrCli, for buffers, inputs and kernel buffers of any size,*)
(* and about EchoFlow, for any clients, streams and bounds.                *)
(***************************************************************************)
EXTENDS StrCli, EchoFlow, FiniteSetTheorems, SequenceTheorems, TLAPS

(***************************************************************************)
(* The inductive invariant. Upstream and Downstream carry each other: what *)
(* comes back is what was sent. Blocks relates a block to what select()    *)
(* has left in the sets: without it StdinEof could come before the last    *)
(* byte, or WriteSock find to[] empty.                                     *)
(***************************************************************************)

\* A descriptor still in its set is one the block may use.
Blocks ==
  /\ block = "stdin" /\ "stdin" \in rset => ~stdineof /\ toi < MaxLine /\ StdinReadable
  /\ block \in {"stdin", "sock"} /\ "sock" \in rset => fri < MaxLine
  /\ block \in {"stdin", "sock", "stdout"} /\ "stdout" \in wset => fro # fri
  /\ block \in {"stdin", "sock", "stdout", "sockout"} /\ "sock" \in wset => too # toi

\* FIN has been sent exactly when stdin has ended and to[] is empty.
Fin ==
  /\ fin <=> stdineof /\ too = toi
  /\ stdineof => fed = Input

\* A server that does not quit closes after FIN; the client returns after that.
Close ==
  /\ ~open /\ ~quit => fin /\ echoed = Len(wire)
  /\ block = "returned" => ~open /\ got = echoed

IInv == CliTypeOK /\ Upstream /\ Downstream /\ Blocks /\ Fin /\ Close

-----------------------------------------------------------------------------
(* The types that arithmetic needs.                                        *)

LEMMA Numbers ==
  CliTypeOK =>
         /\ toi \in Nat /\ too \in Nat /\ too <= toi /\ toi <= MaxLine
         /\ fri \in Nat /\ fro \in Nat /\ fro <= fri /\ fri <= MaxLine
         /\ typed \in Nat /\ fed \in Nat /\ fed <= typed /\ typed <= Input
         /\ Len(wire) \in Nat /\ echoed \in Nat /\ echoed <= Len(wire)
         /\ got \in Nat /\ got <= echoed
         /\ Len(out) \in Nat /\ displayed \in Nat /\ displayed <= Len(out)
         /\ MaxLine \in Nat /\ Input \in Nat
  BY CliAssumption DEF CliTypeOK

-----------------------------------------------------------------------------
(* The steps of the environment touch no pointer and no buffer.            *)

LEMMA EnvironmentStep ==
  ASSUME IInv, EchoServer \/ TypeByte \/ Display
  PROVE  IInv'
<1>. USE CliAssumption
<1>1. UNCHANGED <<locals, fed, wire, fin, got, out>>
  BY DEF EchoServer, Echo, Hangup, Quit, TypeByte, Display, locals
<1>2. CliTypeOK'
  <2>1. CliTypeOK
    BY DEF IInv
  <2>2. CASE Echo
    BY <1>1, <2>1, <2>2, Numbers DEF CliTypeOK, Echo, locals
  <2>3. CASE Hangup
    BY <1>1, <2>1, <2>3 DEF CliTypeOK, Hangup, locals
  <2>6. CASE Quit
    BY <1>1, <2>1, <2>6 DEF CliTypeOK, Quit, locals
  <2>4. CASE TypeByte
    BY <1>1, <2>1, <2>4, Numbers DEF CliTypeOK, TypeByte, locals
  <2>5. CASE Display
    BY <1>1, <2>1, <2>5, Numbers DEF CliTypeOK, Display, locals
  <2>. QED  BY <2>2, <2>3, <2>4, <2>5, <2>6 DEF EchoServer
<1>3. Upstream' /\ Downstream'
  BY <1>1 DEF IInv, Upstream, Downstream, locals
<1>4. Blocks' /\ Fin'
  BY <1>1 DEF IInv, Blocks, StdinReadable, Fin, locals, CliTypeOK, EchoServer, Echo, Hangup, Quit, TypeByte, Display
<1>5. Close'
  BY <1>1 DEF IInv, Close, locals, EchoServer, Echo, Hangup, Quit, TypeByte, Display
<1>. QED  BY <1>2, <1>3, <1>4, <1>5 DEF IInv

\* A step that only moves on to another block.
LEMMA MoveStep ==
  ASSUME IInv,
         UNCHANGED <<to, toi, too, fr, fri, fro, stdineof,
                     typed, fed, wire, fin, echoed, open, quit, got, out, displayed>>,
         block' \in {"select", "stdin", "sock", "stdout", "sockout", "returned", "failed"},
         rset' \subseteq {"stdin", "sock"}, wset' \subseteq {"stdout", "sock"},
         Blocks', block' = "returned" => ~open /\ got = echoed
  PROVE  IInv'
<1>1. CliTypeOK' /\ Close'
  BY DEF IInv, CliTypeOK, Close
<1>2. Upstream' /\ Downstream' /\ Fin'
  BY DEF IInv, Upstream, Downstream, Fin
<1>. QED  BY <1>1, <1>2 DEF IInv

-----------------------------------------------------------------------------
(* The steps that move data.                                               *)

\* read() from stdin puts the next bytes of the input at toiptr.
LEMMA ReadStdinStep == IInv /\ ReadStdin => IInv'
<1>. SUFFICES ASSUME IInv, ReadStdin PROVE IInv'
  OBVIOUS
<1>. USE CliAssumption
<1>0. CliTypeOK /\ Upstream /\ Downstream /\ Blocks /\ Fin /\ Close
  BY DEF IInv
<1>num. /\ toi \in Nat /\ too \in Nat /\ too <= toi /\ toi <= MaxLine /\ MaxLine \in Nat
      /\ fed \in Nat /\ Len(wire) \in Nat /\ Len(wire) + (toi - too) = fed
  BY <1>0, Numbers DEF Upstream
<1>1. PICK n \in 1 .. Least(Space(toi), typed - fed) :
        /\ to' = [k \in Cells |-> IF toi <= k /\ k < toi + n THEN fed + 1 + (k - toi) ELSE to[k]]
        /\ toi' = toi + n
        /\ fed' = fed + n
  BY DEF ReadStdin
<1>2. n \in Nat /\ n > 0 /\ toi + n <= MaxLine /\ fed + n <= typed
  BY <1>0, <1>1 DEF Least, Space, CliTypeOK
<1>3. /\ block = "stdin" /\ "stdin" \in rset /\ block' = "sock" /\ wset' = wset \cup {"sock"}
      /\ UNCHANGED <<rset, too, fr, fri, fro, stdineof, typed, wire, fin, echoed, open, quit, got, out, displayed>>
  BY DEF ReadStdin
<1>4. CliTypeOK'
  <2>1. to' \in [Cells -> Nat]
    <3>1. to \in [Cells -> Nat] /\ Cells \subseteq Nat
      BY <1>0 DEF CliTypeOK, Cells
    <3>2. \A k \in Cells : k \in Nat /\ (toi <= k => fed + 1 + (k - toi) \in Nat)
      BY <3>1, <1>num
    <3>. QED  BY <1>1, <3>1, <3>2
  <2>2. toi' \in 0 .. MaxLine /\ too' \in 0 .. toi' /\ fed' \in 0 .. typed'
    BY <1>num, <1>1, <1>2, <1>3, Numbers, <1>0
  <2>. QED  BY <1>0, <1>3, <2>1, <2>2 DEF CliTypeOK
<1>5. Upstream'
  <2>1. Len(wire) + (toi' - too) = fed'
    <3>1. toi' = toi + n /\ fed' = fed + n
      BY <1>1
    <3>. QED  BY <1>num, <1>2, <3>1
  <2>2. ASSUME NEW k \in too .. toi' - 1
        PROVE  to'[k] = Len(wire) + 1 + (k - too)
    <3>0. toi' = toi + n
      BY <1>1
    <3>1. k \in Cells /\ k \in Nat /\ k < toi + n /\ too <= k
      BY <1>num, <1>2, <3>0 DEF Cells
    <3>3. CASE k < toi
      <4>1. to'[k] = to[k] /\ k \in too .. toi - 1
        <5>1. to'[k] = to[k]
          BY <1>1, <1>num, <3>1, <3>3
        <5>. QED  BY <1>num, <3>1, <3>3, <5>1
      <4>. QED  BY <1>0, <4>1 DEF Upstream
    <3>4. CASE k >= toi
      <4>1. to'[k] = fed + 1 + (k - toi)
        BY <1>1, <1>num, <3>1, <3>4
      <4>. QED  BY <1>num, <3>1, <4>1
    <3>. QED  BY <1>num, <3>1, <3>3, <3>4
  <2>. QED  BY <1>0, <1>3, <2>1, <2>2 DEF Upstream
<1>6. Downstream'
  BY <1>0, <1>3 DEF Downstream
<1>7. Blocks'
  BY <1>0, <1>1, <1>2, <1>3 DEF Blocks, CliTypeOK
<1>8. Fin'
  BY <1>0, <1>1, <1>2, <1>3 DEF Fin, Blocks, CliTypeOK
<1>9. Close'
  BY <1>0, <1>3 DEF Close
<1>. QED  BY <1>4, <1>5, <1>6, <1>7, <1>8, <1>9 DEF IInv

\* End of stdin: FIN at once if to[] is empty, otherwise after the last write.
LEMMA StdinEofStep == IInv /\ StdinEof => IInv'
<1>. SUFFICES ASSUME IInv, StdinEof PROVE IInv'
  OBVIOUS
<1>. USE CliAssumption
<1>1. /\ UNCHANGED <<rset, wset, to, toi, too, fr, fri, fro, typed, fed, wire, echoed, open, quit, got, out, displayed>>
      /\ block = "stdin" /\ block' = "sock" /\ stdineof' = TRUE /\ "stdin" \in rset
  BY DEF StdinEof
<1>2. CliTypeOK'
  <2>1. fin' \in BOOLEAN
    BY DEF StdinEof, FinAtEof
  <2>. QED  BY <1>1, <2>1 DEF IInv, CliTypeOK
<1>3. Upstream' /\ Downstream' /\ Blocks'
  BY <1>1 DEF IInv, Upstream, Downstream, Blocks
<1>4. Fin'
  <2>1. fed = Input
    BY <1>1 DEF IInv, Blocks, StdinReadable, StdinEof, CliTypeOK
  <2>2. fin' = (fin \/ too = toi) /\ ~stdineof
    BY <1>1 DEF IInv, Blocks, StdinEof, FinAtEof
  <2>. QED  BY <1>1, <2>1, <2>2 DEF IInv, Fin
<1>5. Close'
  <2>1. (fin => fin') /\ UNCHANGED <<open, quit, echoed, wire>>
    BY <1>1 DEF StdinEof
  <2>. QED  BY <1>1, <2>1 DEF IInv, Close
<1>. QED  BY <1>2, <1>3, <1>4, <1>5 DEF IInv

\* read() from the socket puts the next echoed bytes at friptr.
LEMMA ReadSockStep == IInv /\ ReadSock => IInv'
<1>. SUFFICES ASSUME IInv, ReadSock PROVE IInv'
  OBVIOUS
<1>. USE CliAssumption
<1>0. CliTypeOK /\ Upstream /\ Downstream /\ Blocks /\ Fin /\ Close
  BY DEF IInv
<1>num. /\ fri \in Nat /\ fro \in Nat /\ fro <= fri /\ fri <= MaxLine /\ MaxLine \in Nat
      /\ got \in Nat /\ Len(out) \in Nat /\ Len(out) + (fri - fro) = got
  BY <1>0, Numbers DEF Downstream
<1>1. PICK n \in 1 .. Least(Space(fri), echoed - got) :
        /\ fr' = [k \in Cells |-> IF fri <= k /\ k < fri + n THEN wire[got + 1 + (k - fri)] ELSE fr[k]]
        /\ fri' = fri + n
        /\ got' = got + n
  BY DEF ReadSock, FrNext
<1>2. n \in Nat /\ n > 0 /\ fri + n <= MaxLine /\ got + n <= echoed
  BY <1>0, <1>1 DEF Least, Space, CliTypeOK
<1>3. /\ block = "sock" /\ "sock" \in rset /\ block' = "stdout" /\ wset' = wset \cup {"stdout"}
      /\ UNCHANGED <<rset, to, toi, too, fro, stdineof, typed, fed, wire, fin, echoed, open, quit, out, displayed>>
  BY DEF ReadSock
<1>4. \A k \in Cells : fri <= k /\ k < fri + n =>
        /\ got + 1 + (k - fri) \in 1 .. Len(wire)
        /\ fr'[k] = got + 1 + (k - fri)
  <2>. SUFFICES ASSUME NEW k \in Cells, fri <= k, k < fri + n
                PROVE  /\ got + 1 + (k - fri) \in 1 .. Len(wire)
                       /\ fr'[k] = got + 1 + (k - fri)
    OBVIOUS
  <2>1. got + 1 + (k - fri) \in 1 .. Len(wire)
    <3>1. echoed \in Nat /\ echoed <= Len(wire) /\ Len(wire) \in Nat
      BY <1>0, Numbers
    <3>. QED  BY <1>num, <1>2, <3>1 DEF Cells
  <2>2. fr'[k] = wire[got + 1 + (k - fri)]
    BY <1>1
  <2>. QED  BY <1>0, <2>1, <2>2 DEF Upstream
<1>5. CliTypeOK'
  <2>1. fr' \in [Cells -> Nat]
    <3>1. ASSUME NEW k \in Cells PROVE fr'[k] \in Nat
      <4>1. CASE fri <= k /\ k < fri + n
        <5>1. fr'[k] = got + 1 + (k - fri) /\ k \in Nat
          BY <1>4, <4>1 DEF Cells
        <5>. QED  BY <1>num, <4>1, <5>1
      <4>2. CASE ~(fri <= k /\ k < fri + n)
        BY <1>0, <1>1, <4>2 DEF CliTypeOK
      <4>. QED  BY <4>1, <4>2
    <3>. QED  BY <1>1, <3>1
  <2>. QED  BY <1>0, <1>1, <1>2, <1>3, <2>1 DEF CliTypeOK
<1>6. Downstream'
  <2>1. Len(out) + (fri' - fro) = got'
    <3>1. fri' = fri + n /\ got' = got + n
      BY <1>1
    <3>. QED  BY <1>num, <1>2, <3>1
  <2>2. ASSUME NEW k \in fro .. fri' - 1
        PROVE  fr'[k] = Len(out) + 1 + (k - fro)
    <3>0. fri' = fri + n
      BY <1>1
    <3>1. k \in Cells /\ k \in Nat /\ k < fri + n /\ fro <= k
      BY <1>num, <1>2, <3>0 DEF Cells
    <3>3. CASE k < fri
      <4>1. fr'[k] = fr[k] /\ k \in fro .. fri - 1
        <5>1. fr'[k] = fr[k]
          BY <1>1, <1>num, <3>1, <3>3
        <5>. QED  BY <1>num, <3>1, <3>3, <5>1
      <4>. QED  BY <1>0, <4>1 DEF Downstream
    <3>4. CASE k >= fri
      <4>1. fr'[k] = got + 1 + (k - fri)
        BY <1>4, <3>1, <3>4
      <4>. QED  BY <1>num, <3>1, <4>1
    <3>. QED  BY <1>num, <3>1, <3>3, <3>4
  <2>. QED  BY <1>0, <1>3, <2>1, <2>2 DEF Downstream
<1>7. Upstream' /\ Fin' /\ Close'
  BY <1>0, <1>3 DEF Upstream, Fin, Close
<1>8. Blocks'
  BY <1>0, <1>1, <1>2, <1>3 DEF Blocks, CliTypeOK
<1>. QED  BY <1>0, <1>5, <1>6, <1>7, <1>8 DEF IInv

\* What a partial write of n bytes from buf[p..] appends.
LEMMA AppendedBytes ==
  ASSUME NEW s \in Seq(Nat), NEW buf \in [Cells -> Nat],
         NEW p \in 0 .. MaxLine, NEW n \in Nat, p + n <= MaxLine,
         \A k \in 1 .. Len(s) : s[k] = k,
         \A k \in p .. p + n - 1 : buf[k] = Len(s) + 1 + (k - p),
         NEW t, t = s \o [j \in 1 .. n |-> buf[p + j - 1]]
  PROVE  /\ t \in Seq(Nat) /\ Len(t) = Len(s) + n
         /\ \A k \in 1 .. Len(t) : t[k] = k
<1>. USE CliAssumption
<1>. DEFINE chunk == [j \in 1 .. n |-> buf[p + j - 1]]
<1>1. ASSUME NEW j \in 1 .. n
      PROVE  p + j - 1 \in Cells /\ buf[p + j - 1] = Len(s) + j
  <2>1. p + j - 1 \in Cells /\ p + j - 1 \in p .. p + n - 1
    <3>1. MaxLine \in Nat /\ p \in Nat /\ j \in Nat /\ 1 <= j /\ j <= n /\ p + n <= MaxLine
      OBVIOUS
    <3>. HIDE CliAssumption
    <3>2. p + j - 1 \in Int /\ 0 <= p + j - 1 /\ p <= p + j - 1 /\ p + j - 1 <= p + n - 1
      BY <3>1
    <3>3. p + n - 1 \in Int /\ MaxLine - 1 \in Int /\ p + n - 1 <= MaxLine - 1
      BY <3>1
    <3>4. p + j - 1 \in 0 .. MaxLine - 1
      BY <3>2, <3>3
    <3>5. p + j - 1 \in p .. p + n - 1
      BY <3>2, <3>3
    <3>. QED  BY <3>4, <3>5 DEF Cells
  <2>2. buf[p + j - 1] = Len(s) + 1 + ((p + j - 1) - p)
    BY <2>1
  <2>. QED  BY <2>1, <2>2
<1>2. chunk \in Seq(Nat) /\ Len(chunk) = n
  BY <1>1
<1>. HIDE DEF chunk
<1>3. t \in Seq(Nat) /\ Len(t) = Len(s) + n
  BY <1>2, ConcatProperties DEF chunk
<1>4. ASSUME NEW k \in 1 .. Len(t) PROVE t[k] = k
  <2>1. CASE k <= Len(s)
    BY <1>2, <2>1, ConcatProperties DEF chunk
  <2>2. CASE k > Len(s)
    <3>1. k - Len(s) \in 1 .. n
      BY <1>3, <2>2
    <3>2. t[k] = chunk[k - Len(s)]
      BY <1>2, <1>3, <2>2, ConcatProperties DEF chunk
    <3>3. chunk[k - Len(s)] = Len(s) + (k - Len(s))
      BY <1>1, <3>1 DEF chunk
    <3>. QED  BY <3>1, <3>2, <3>3
  <2>. QED  BY <2>1, <2>2
<1>. QED  BY <1>3, <1>4

\* write() to stdout takes the oldest bytes of fr[]; an emptied buffer starts
\* again at its first cell.
LEMMA WriteStdoutStep == IInv /\ WriteStdout => IInv'
<1>. SUFFICES ASSUME IInv, WriteStdout PROVE IInv'
  OBVIOUS
<1>. USE CliAssumption
<1>0. CliTypeOK /\ Upstream /\ Downstream /\ Blocks /\ Fin /\ Close
  BY DEF IInv
<1>num. /\ fri \in Nat /\ fro \in Nat /\ fro <= fri /\ fri <= MaxLine /\ MaxLine \in Nat
      /\ got \in Nat /\ Len(out) \in Nat /\ Len(out) + (fri - fro) = got
  BY <1>0, Numbers DEF Downstream
<1>1. /\ block = "stdout" /\ "stdout" \in wset /\ block' = "sockout"
      /\ UNCHANGED <<rset, wset, to, toi, too, fr, stdineof, typed, fed, wire, fin, echoed, open, quit, got, displayed>>
  BY DEF WriteStdout
<1>2. Upstream' /\ Fin' /\ Close' /\ Blocks'
  BY <1>0, <1>1 DEF Upstream, Fin, Close, Blocks
<1>3. CASE UNCHANGED <<out, fri, fro>>
  <2>1. CliTypeOK' /\ Downstream'
    BY <1>0, <1>1, <1>3 DEF CliTypeOK, Downstream
  <2>. QED  BY <1>2, <2>1 DEF IInv
<1>4. ASSUME NEW n \in 1 .. Least(fri - fro, TtyRoom - (Len(out) - displayed)),
             out' = out \o [j \in 1 .. n |-> fr[fro + j - 1]],
             fri' = Rewind(fri, Wrote(fri, fro, n), fri),
             fro' = Rewind(fri, Wrote(fri, fro, n), Wrote(fri, fro, n))
      PROVE  IInv'
  <2>1. n \in Nat /\ n > 0 /\ fro + n <= fri
    BY <1>0, <1>4 DEF Least, CliTypeOK
  <2>2. /\ out' \in Seq(Nat) /\ Len(out') = Len(out) + n
        /\ \A k \in 1 .. Len(out') : out'[k] = k
    <3>1. \A k \in fro .. fro + n - 1 : fr[k] = Len(out) + 1 + (k - fro)
      BY <1>0, <2>1 DEF Downstream, CliTypeOK
    <3>2. /\ out \in Seq(Nat) /\ fr \in [Cells -> Nat]
          /\ fro \in 0 .. MaxLine /\ fro + n <= MaxLine
          /\ \A k \in 1 .. Len(out) : out[k] = k
      BY <1>0, <2>1, Numbers DEF CliTypeOK, Downstream
    <3>. QED  BY <1>4, <2>1, <3>1, <3>2, AppendedBytes
  <2>3. \/ fro + n = fri /\ fri' = 0 /\ fro' = 0
        \/ fro + n < fri /\ fri' = fri /\ fro' = fro + n
    BY <1>0, <1>4, <2>1 DEF Rewind, Wrote, CliTypeOK
  <2>4. CliTypeOK'
    <3>1. /\ fri' \in 0 .. MaxLine /\ fro' \in 0 .. fri'
      BY <1>num, <2>1, <2>3
    <3>2. displayed' \in 0 .. Len(out')
      BY <1>0, <1>1, <1>num, <2>1, <2>2 DEF CliTypeOK
    <3>. QED  BY <1>0, <1>1, <2>2, <3>1, <3>2 DEF CliTypeOK
  <2>5. Len(out') + (fri' - fro') = got'
    <3>1. Len(out') = Len(out) + n /\ got' = got
      BY <1>1, <2>2
    <3>. QED  BY <1>num, <2>1, <2>3, <3>1
  <2>6. ASSUME NEW k \in fro' .. fri' - 1 PROVE fr[k] = Len(out') + 1 + (k - fro')
    <3>1. k \in fro .. fri - 1 /\ fro' = fro + n
      BY <1>num, <2>1, <2>3
    <3>2. fr[k] = Len(out) + 1 + (k - fro)
      BY <1>0, <3>1 DEF Downstream
    <3>3. Len(out') = Len(out) + n
      BY <2>2
    <3>. QED  BY <1>num, <2>1, <3>1, <3>2, <3>3
  <2>7. Downstream'
    BY <1>1, <2>2, <2>5, <2>6 DEF Downstream
  <2>. QED  BY <1>2, <2>4, <2>7 DEF IInv
<1>. QED  BY <1>3, <1>4 DEF WriteStdout

\* write() to the socket takes the oldest bytes of to[]; FIN follows the last.
LEMMA WriteSockStep == IInv /\ WriteSock => IInv'
<1>. SUFFICES ASSUME IInv, WriteSock PROVE IInv'
  OBVIOUS
<1>. USE CliAssumption
<1>0. CliTypeOK /\ Upstream /\ Downstream /\ Blocks /\ Fin /\ Close
  BY DEF IInv
<1>num. /\ toi \in Nat /\ too \in Nat /\ too <= toi /\ toi <= MaxLine /\ MaxLine \in Nat
      /\ fed \in Nat /\ Len(wire) \in Nat /\ Len(wire) + (toi - too) = fed
  BY <1>0, Numbers DEF Upstream
<1>1. /\ block = "sockout" /\ "sock" \in wset /\ block' \in {"select", "failed"}
      /\ UNCHANGED <<rset, wset, to, fr, fri, fro, stdineof, typed, fed, echoed, open, quit, got, out, displayed>>
  BY DEF WriteSock
<1>2. Blocks' /\ Downstream'
  BY <1>0, <1>1 DEF Blocks, Downstream
<1>3. CASE UNCHANGED <<wire, toi, too, fin>>
  <2>1. CliTypeOK' /\ Upstream' /\ Fin' /\ Close'
    BY <1>0, <1>1, <1>3 DEF CliTypeOK, Upstream, Fin, Close
  <2>. QED  BY <1>2, <2>1 DEF IInv
<1>4. ASSUME NEW n \in 1 .. Least(toi - too, IF open THEN SockRoom - (Len(wire) - echoed) ELSE MaxLine),
             wire' = wire \o [j \in 1 .. n |-> to[too + j - 1]],
             toi' = Rewind(toi, Wrote(toi, too, n), toi),
             too' = Rewind(toi, Wrote(toi, too, n), Wrote(toi, too, n)),
             fin' = (fin \/ (toi = Wrote(toi, too, n) /\ FinAtDrain))
      PROVE  IInv'
  <2>1. n \in Nat /\ n > 0 /\ too + n <= toi
    BY <1>0, <1>4 DEF Least, CliTypeOK
  <2>2. /\ wire' \in Seq(Nat) /\ Len(wire') = Len(wire) + n
        /\ \A k \in 1 .. Len(wire') : wire'[k] = k
    <3>1. \A k \in too .. too + n - 1 : to[k] = Len(wire) + 1 + (k - too)
      BY <1>0, <2>1 DEF Upstream, CliTypeOK
    <3>2. /\ wire \in Seq(Nat) /\ to \in [Cells -> Nat]
          /\ too \in 0 .. MaxLine /\ too + n <= MaxLine
          /\ \A k \in 1 .. Len(wire) : wire[k] = k
      BY <1>0, <2>1, Numbers DEF CliTypeOK, Upstream
    <3>. QED  BY <1>4, <2>1, <3>1, <3>2, AppendedBytes
  <2>3. \/ too + n = toi /\ toi' = 0 /\ too' = 0
        \/ too + n < toi /\ toi' = toi /\ too' = too + n
    BY <1>0, <1>4, <2>1 DEF Rewind, Wrote, CliTypeOK
  <2>4. ~fin /\ fin' = (too + n = toi /\ stdineof)
    BY <1>0, <1>1, <1>4, <2>1 DEF Blocks, Fin, FinAtDrain, Wrote, CliTypeOK
  <2>5. CliTypeOK'
    <3>1. fin' \in BOOLEAN
      BY <2>4
    <3>2. toi' \in 0 .. MaxLine /\ too' \in 0 .. toi' /\ echoed \in 0 .. Len(wire')
      <4>1. Len(wire') = Len(wire) + n /\ echoed \in Nat /\ echoed <= Len(wire)
        BY <1>0, <2>2, Numbers
      <4>. QED  BY <1>num, <2>1, <2>3, <4>1
    <3>3. block' \in {"select", "stdin", "sock", "stdout", "sockout", "returned", "failed"}
      BY <1>1
    <3>. QED  BY <1>0, <1>1, <2>2, <3>1, <3>2, <3>3 DEF CliTypeOK
  <2>6. Upstream'
    <3>1. Len(wire') + (toi' - too') = fed'
      <4>1. Len(wire') = Len(wire) + n /\ fed' = fed
        BY <1>1, <2>2
      <4>. QED  BY <1>num, <2>1, <2>3, <4>1
    <3>2. ASSUME NEW k \in too' .. toi' - 1 PROVE to[k] = Len(wire') + 1 + (k - too')
      <4>1. k \in too .. toi - 1 /\ too' = too + n
        BY <1>num, <2>1, <2>3
      <4>2. to[k] = Len(wire) + 1 + (k - too)
        BY <1>0, <4>1 DEF Upstream
      <4>3. Len(wire') = Len(wire) + n
        BY <2>2
      <4>. QED  BY <1>num, <2>1, <4>1, <4>2, <4>3
    <3>. QED  BY <1>1, <2>2, <3>1, <3>2 DEF Upstream
  <2>7. Fin'
    BY <1>0, <1>1, <2>1, <2>3, <2>4 DEF Fin, CliTypeOK
  <2>8. Close'
    BY <1>0, <1>1, <2>4 DEF Close
  <2>. QED  BY <1>2, <2>5, <2>6, <2>7, <2>8 DEF IInv
<1>. QED  BY <1>3, <1>4 DEF WriteSock

-----------------------------------------------------------------------------
(* The theorems.                                                           *)

LEMMA ClientStep == IInv /\ Client => IInv'
<1>. SUFFICES ASSUME IInv, Client PROVE IInv'
  OBVIOUS
<1>0. CliTypeOK /\ Blocks /\ Close
  BY DEF IInv
<1>1. CASE Select
  <2>1. Blocks'
    BY <1>0, <1>1 DEF Select, Blocks, StdinReadable
  <2>. QED  BY <1>1, <2>1, MoveStep DEF Select
<1>2. CASE \/ Pass("stdin", "stdin", rset, "sock") \/ Pass("sock", "sock", rset, "stdout")
           \/ Pass("stdout", "stdout", wset, "sockout") \/ Pass("sockout", "sock", wset, "select")
  <2>1. Blocks'
    BY <1>0, <1>2 DEF Pass, Blocks
  <2>. QED  BY <1>0, <1>2, <2>1, MoveStep DEF Pass, CliTypeOK
<1>3. CASE SockEof \/ SockError
  <2>1. Blocks'
    BY <1>0, <1>3 DEF SockEof, SockError, Blocks
  <2>. QED  BY <1>0, <1>3, <2>1, MoveStep DEF SockEof, SockError, CliTypeOK
<1>. QED
  BY <1>1, <1>2, <1>3, ReadStdinStep, StdinEofStep, ReadSockStep, WriteStdoutStep,
     WriteSockStep DEF Client

\* The inductive invariant holds in every reachable state.
THEOREM Invariant == CliSpec => []IInv
<1>1. CliInit => IInv
  <2>. SUFFICES ASSUME CliInit PROVE IInv
    OBVIOUS
  <2>1. CliTypeOK
    <3>1. stdineof \in BOOLEAN /\ fin \in BOOLEAN /\ open \in BOOLEAN /\ quit \in BOOLEAN
      BY DEF CliInit
    <3>2. Len(wire) = 0 /\ Len(out) = 0 /\ wire \in Seq(Nat) /\ out \in Seq(Nat)
      BY DEF CliInit
    <3>. QED  BY <3>1, <3>2, CliAssumption DEF CliInit, CliTypeOK, Cells
  <2>2. Upstream /\ Downstream
    BY CliAssumption DEF CliInit, Upstream, Downstream
  <2>3. Blocks /\ Close
    BY DEF CliInit, Blocks, Close
  <2>4. Fin
    BY DEF CliInit, Fin
  <2>. QED  BY <2>1, <2>2, <2>3, <2>4 DEF IInv
<1>2. IInv /\ [CliNext]_strcli => IInv'
  <2>. SUFFICES ASSUME IInv, [CliNext]_strcli PROVE IInv'
    OBVIOUS
  <2>1. CASE UNCHANGED strcli
    BY <2>1, MoveStep DEF strcli, locals, IInv, CliTypeOK, Blocks, Close, StdinReadable
  <2>. QED  BY <2>1, ClientStep, EnvironmentStep DEF CliNext
<1>. QED  BY <1>1, <1>2, PTL DEF CliSpec

\* toiptr, tooptr, friptr and froptr stay in order inside their buffers.
THEOREM TypeCorrect == CliSpec => []CliTypeOK
<1>1. IInv => CliTypeOK
  BY DEF IInv
<1>. QED  BY <1>1, Invariant, PTL

\* shutdown() comes after the last byte of stdin, and always comes.
THEOREM FinIsLast == CliSpec => []FinLast
<1>1. IInv => FinLast
  <2>. SUFFICES ASSUME IInv PROVE FinLast
    OBVIOUS
  <2>1. /\ fin <=> stdineof /\ too = toi
        /\ stdineof => fed = Input
        /\ Len(wire) + (toi - too) = fed
        /\ toi \in Nat /\ too \in Nat /\ Len(wire) \in Nat
    BY CliAssumption DEF IInv, Fin, Upstream, CliTypeOK
  <2>. QED  BY <2>1 DEF FinLast
<1>. QED  BY <1>1, Invariant, PTL

\* A normal return comes after everything was sent, echoed and read into fr[];
\* what is not on stdout then is the end of the input, and is in fr[].
THEOREM ReturnsAfterAll == CliSpec => []ReturnedAfterAll
<1>1. IInv => ReturnedAfterAll
  <2>. SUFFICES ASSUME IInv, block = "returned", ~quit
                PROVE  /\ Len(wire) = Input /\ got = Input
                       /\ Len(out) + (fri - fro) = Input
                       /\ \A k \in fro .. fri - 1 : fr[k] = Len(out) + 1 + (k - fro)
    BY DEF ReturnedAfterAll
  <2>1. fin /\ got = echoed /\ echoed = Len(wire)
    BY DEF IInv, Close
  <2>2. /\ fed = Input /\ too = toi /\ Len(wire) + (toi - too) = fed
        /\ toi \in Nat /\ too \in Nat /\ Len(wire) \in Nat
    BY <2>1, CliAssumption DEF IInv, Fin, Upstream, CliTypeOK
  <2>3. Len(wire) = Input /\ got = Input
    BY <2>1, <2>2
  <2>4. /\ Len(out) + (fri - fro) = got
        /\ \A k \in fro .. fri - 1 : fr[k] = Len(out) + 1 + (k - fro)
    BY DEF IInv, Downstream
  <2>. QED  BY <2>3, <2>4
<1>. QED  BY <1>1, Invariant, PTL

\* No byte is lost, duplicated or moved on the way to the socket, nor on the way
\* back to fr[] and from there to stdout; FIN comes after the last, the return
\* after the last echo was read. What fr[] holds at the return is not written.
THEOREM EchoIntact == CliSpec => []Intact
<1>1. IInv => Upstream /\ Downstream
  BY DEF IInv
<1>. QED  BY <1>1, Invariant, FinIsLast, ReturnsAfterAll, PTL DEF Intact

(***************************************************************************)
(* EchoFlow. InOrder speaks of some stream r: Back says which. Answering   *)
(* says that the server has it right, Placed that no queue grows too long, *)
(* and Round that a client of ch10 awaits as many answers as are out.      *)
(***************************************************************************)

Msgs   == [str : Strms, num : Nat, word : BOOLEAN]
Queues == [Strms -> Seq(Msgs)]

FlowTypes ==
  /\ mode \in Modes /\ increment \in BOOLEAN /\ streams \in [Clients -> StreamCounts \cup {1}]
  /\ Tcp => ~increment /\ \A c \in Clients : streams[c] = 1
  /\ cpc \in [Clients -> {"prompt", "send", "recv", "sock", "done"}]
  /\ todo \in [Clients -> Seq(Strms \X BOOLEAN)] /\ await \in [Clients -> 0 .. Asked]
  /\ up \in [Clients -> Queues] /\ down \in [Clients -> Queues]
  /\ sent \in [Clients -> [Strms -> Nat]] /\ seen \in [Clients -> [Strms -> Nat]]
  /\ spc \in {"recv", "send", "dead"} /\ (spc = "dead" => Tcp)
  /\ held \in Seq(Msgs) /\ (spc = "send" <=> held # <<>>)
  /\ from \in Clients \cup {NoClient} /\ (spc = "send" => from \in Clients) /\ dest \in Strms

\* Where a client is, and what its connection holds.
Placed(c) ==
  /\ mode[c] = "none" => cpc[c] = "done"
  /\ cpc[c] = "sock" => mode[c] = "select"
  /\ cpc[c] = "recv" => mode[c] # "select"
  /\ cpc[c] = "send" => todo[c] # <<>>
  /\ \A s \in Strms : s >= streams[c] => up[c][s] = <<>> /\ down[c][s] = <<>>
  /\ Buffered(up[c]) <= Room /\ Buffered(down[c]) <= Room

\* The stream on which the answers of stream s come back: no two are the same.
Back(c, s) ==
  IF s >= streams[c] \/ ~increment THEN s ELSE IF s + 1 = streams[c] THEN 0 ELSE s + 1
Chain(c) == \A s \in Strms : UnderWay(c, s, Back(c, s))
Answering == dest = Back(from, held[1].str) /\ held[1].str < streams[from]

\* A client of ch10 awaits an answer for each message that has gone out, and for
\* each that it has still to send, on as many streams.
Out(c) == {s \in Strms : sent[c][s] # seen[c][s]}
Round(c) ==
  /\ \A s \in Strms : sent[c][s] \in {seen[c][s], seen[c][s] + 1}
  /\ \A i, j \in 1 .. Len(todo[c]) : i < j => todo[c][i][1] # todo[c][j][1]
  /\ \A i \in 1 .. Len(todo[c]) : todo[c][i][1] \notin Out(c)
  /\ Cardinality(Out(c)) + Len(todo[c]) <= await[c]
  /\ cpc[c] = "prompt" => await[c] = 0

Right(c) ==
  /\ Placed(c)
  /\ spc # "dead" /\ ~Gone(c) => Chain(c)
  /\ ~Gone(c) /\ mode[c] # "select" => Round(c)

FlowInv ==
  /\ FlowTypes /\ \A c \in Clients : Right(c)
  /\ spc = "send" /\ ~Gone(from) => Answering
-----------------------------------------------------------------------------
(* Streams, places and queues.                                             *)

\* There are finitely many streams, and the numbers that are used are among them.
LEMMA StrmsAre ==
  /\ IsFiniteSet(Strms) /\ Strms \subseteq Nat /\ 0 \in Strms /\ Asked \in Nat /\ Asked > 0
  /\ Room \in Nat /\ Chunk \in Nat /\ Chunk > 0
  /\ \A n \in StreamCounts \cup {1} : n \in Nat /\ n > 0 /\ \A k \in Nat : k < n => k \in Strms
  /\ \A k \in Nat : k < Asked => k \in Strms
<1>1. /\ StreamCounts \subseteq Nat \ {0} /\ IsFiniteSet(StreamCounts)
      /\ Asked \in Nat \ {0} /\ Chunk \in Nat \ {0} /\ Room \in Nat
  BY FlowAssumption
<1>2. PICK N : N = StreamCounts \cup {Asked}
  OBVIOUS
<1>3. IsFiniteSet(N) /\ N \subseteq Nat
  BY <1>1, <1>2, FS_AddElement, Zenon
<1>4. PICK A : A = {0 .. n : n \in N}
  OBVIOUS
<1>5. IsFiniteSet(A)
  <2>1. [n \in N |-> 0 .. n] \in Surjection(N, A)
    BY <1>4 DEF Surjection
  <2>. QED  BY <1>3, <2>1, FS_Surjection
<1>6. \A T \in A : IsFiniteSet(T)
  <2>1. ASSUME NEW n \in N PROVE IsFiniteSet(0 .. n)
    BY <1>3, FS_Interval
  <2>. QED  BY <1>4, <2>1
<1>7. Strms = UNION A
  BY <1>2, <1>4, Zenon DEF Strms
<1>8. IsFiniteSet(Strms)
  BY <1>5, <1>6, <1>7, FS_UNION
<1>9. \A k : k \in Strms <=> \E n \in N : k \in 0 .. n
  BY <1>4, <1>7
<1>10. Strms \subseteq Nat
  BY <1>9
<1>11. ASSUME NEW n \in N, NEW k \in Nat, k < n PROVE k \in Strms
  <2>1. k \in 0 .. n
    BY <1>3, <1>11
  <2>. QED  BY <1>9, <2>1
<1>12. Asked \in N /\ \A n \in StreamCounts : n \in N
  BY <1>2
<1>13. \A k \in Nat : k < 1 => k \in Strms
  BY <1>1, <1>11, <1>12
<1>. QED  BY <1>1, <1>8, <1>10, <1>11, <1>12, <1>13

\* A set with one more element, and with one less.
LEMMA OneMore ==
  ASSUME NEW S, IsFiniteSet(S), NEW x, x \notin S, NEW T, T = S \cup {x}
  PROVE  IsFiniteSet(T) /\ Cardinality(S) \in Nat /\ Cardinality(T) = Cardinality(S) + 1
<1>1. IsFiniteSet(S \cup {x}) /\ Cardinality(S \cup {x}) = Cardinality(S) + 1
  BY FS_AddElement
<1>2. Cardinality(S) \in Nat
  BY FS_CardinalityType
<1>. QED  BY <1>1, <1>2, Zenon

\* A set that has lost an element.
LEMMA OneLess ==
  ASSUME NEW S, IsFiniteSet(S), NEW x, x \in S, NEW T, T = S \ {x}
  PROVE  IsFiniteSet(T) /\ Cardinality(S) \in Nat /\ Cardinality(S) = Cardinality(T) + 1
<1>1. IsFiniteSet(S \ {x}) /\ Cardinality(S \ {x}) = Cardinality(S) - 1
  BY FS_RemoveElement
<1>2. Cardinality(S) \in Nat
  BY FS_CardinalityType
<1>3. IsFiniteSet(T) /\ Cardinality(T) = Cardinality(S) - 1
  BY <1>1, Zenon
<1>. QED  BY <1>2, <1>3

\* Where a connection has something, in one direction.
Places(q) == UNION {{s} \X (1 .. Len(q[s])) : s \in Strms}

\* The items buffered in one direction are counted place by place.
LEMMA InPlaces ==
  ASSUME NEW q \in Queues
  PROVE  /\ \A p : p \in Places(q) <=> \E s \in Strms : \E i \in 1 .. Len(q[s]) : p = <<s, i>>
         /\ IsFiniteSet(Places(q)) /\ Buffered(q) = Cardinality(Places(q)) /\ Buffered(q) \in Nat
<1>1. \A p : p \in Places(q) <=> \E s \in Strms : \E i \in 1 .. Len(q[s]) : p = <<s, i>>
  BY DEF Places
<1>2. PICK A : A = {{s} \X (1 .. Len(q[s])) : s \in Strms}
  OBVIOUS
<1>3. IsFiniteSet(A)
  <2>1. [s \in Strms |-> {s} \X (1 .. Len(q[s]))] \in Surjection(Strms, A)
    BY <1>2 DEF Surjection
  <2>. QED  BY <2>1, StrmsAre, FS_Surjection
<1>4. \A T \in A : IsFiniteSet(T)
  <2>1. ASSUME NEW s \in Strms PROVE IsFiniteSet({s} \X (1 .. Len(q[s])))
    <3>1. Len(q[s]) \in Nat
      BY LenProperties DEF Queues
    <3>2. IsFiniteSet(1 .. Len(q[s]))
      BY <3>1, FS_Interval
    <3>3. IsFiniteSet({s})
      BY FS_Singleton, Zenon
    <3>. QED  BY <3>2, <3>3, FS_Product, Zenon
  <2>. QED  BY <1>2, <2>1
<1>5. IsFiniteSet(Places(q))
  <2>1. Places(q) = UNION A
    BY <1>2, Zenon DEF Places
  <2>. QED  BY <1>3, <1>4, <2>1, FS_UNION
<1>6. Buffered(q) = Cardinality(Places(q))
  BY Zenon DEF Buffered, Places
<1>7. Cardinality(Places(q)) \in Nat
  BY <1>5, FS_CardinalityType
<1>. QED  BY <1>1, <1>5, <1>6, <1>7

\* A connection that has no more on any stream has no more.
LEMMA LessBuffered ==
  ASSUME NEW q \in Queues, NEW t \in Queues, \A s \in Strms : Len(t[s]) <= Len(q[s])
  PROVE  Buffered(t) <= Buffered(q)
<1>1. ASSUME NEW s \in Strms, NEW i \in 1 .. Len(t[s]) PROVE i \in 1 .. Len(q[s])
  <2>1. Len(t[s]) \in Nat /\ Len(q[s]) \in Nat /\ Len(t[s]) <= Len(q[s])
    BY LenProperties DEF Queues
  <2>. QED  BY <1>1, <2>1
<1>2. \A p : p \in Places(t) => p \in Places(q)
  BY <1>1, InPlaces
<1>3. Places(t) \subseteq Places(q)
  BY <1>2, Zenon
<1>4. Cardinality(Places(t)) <= Cardinality(Places(q))
  BY <1>3, InPlaces, FS_Subset, Zenon
<1>. QED  BY <1>4, InPlaces

\* And one with one more on one stream has one more.
LEMMA MoreBuffered ==
  ASSUME NEW q \in Queues, NEW t \in Queues, NEW s \in Strms, Len(t[s]) = Len(q[s]) + 1,
         \A r \in Strms : r # s => t[r] = q[r]
  PROVE  Buffered(t) = Buffered(q) + 1
<1>1. PICK n \in Nat : n = Len(q[s])
  BY LenProperties DEF Queues
<1>2. PICK x : x = <<s, n + 1>>
  OBVIOUS
<1>3. x \notin Places(q)
  <2>1. ASSUME NEW r \in Strms, NEW i \in 1 .. Len(q[r]), x = <<r, i>> PROVE FALSE
    <3>1. r = s /\ i = n + 1
      BY <1>2, <2>1
    <3>2. n + 1 \in 1 .. n
      BY <1>1, <2>1, <3>1
    <3>. QED  BY <3>2
  <2>. QED  BY <2>1, InPlaces
<1>4. ASSUME NEW p PROVE p \in Places(t) <=> p \in Places(q) \/ p = x
  <2>1. ASSUME NEW r \in Strms, NEW i \in 1 .. Len(t[r]), p = <<r, i>> PROVE p \in Places(q) \/ p = x
    <3>1. CASE r = s
      <4>1. i \in 1 .. n + 1
        BY <1>1, <2>1, <3>1
      <4>2. i \in 1 .. n \/ i = n + 1
        BY <4>1
      <4>. QED  BY <1>1, <1>2, <2>1, <3>1, <4>2, InPlaces
    <3>2. CASE r # s
      BY <2>1, <3>2, InPlaces
    <3>. QED  BY <3>1, <3>2
  <2>2. ASSUME NEW r \in Strms, NEW i \in 1 .. Len(q[r]), p = <<r, i>> PROVE p \in Places(t)
    <3>1. i \in 1 .. Len(t[r])
      <4>1. CASE r = s
        <5>1. i \in 1 .. n
          BY <1>1, <2>2, <4>1
        <5>2. i \in 1 .. n + 1
          BY <5>1
        <5>. QED  BY <1>1, <4>1, <5>2
      <4>2. CASE r # s
        BY <2>2, <4>2
      <4>. QED  BY <4>1, <4>2
    <3>. QED  BY <2>2, <3>1, InPlaces
  <2>3. n + 1 \in 1 .. Len(t[s])
    BY <1>1
  <2>4. x \in Places(t)
    BY <1>2, <2>3, InPlaces
  <2>. QED  BY <2>1, <2>2, <2>4, InPlaces
<1>5. Places(t) = Places(q) \cup {x}
  BY <1>4, Zenon
<1>6. Cardinality(Places(t)) = Cardinality(Places(q)) + 1
  BY <1>3, <1>5, InPlaces, OneMore, Zenon
<1>. QED  BY <1>6, InPlaces

\* q without its first n; its first n; q with x at its end.
Without(q, t, n) == Len(q) = Len(t) + n /\ \A i \in 1 .. Len(t) : t[i] = q[n + i]
First(q, h, n)   == Len(h) = n /\ n <= Len(q) /\ \A i \in 1 .. n : h[i] = q[i]
With(q, x, t)    == Len(t) = Len(q) + 1 /\ t[Len(q) + 1] = x /\ \A i \in 1 .. Len(q) : t[i] = q[i]

\* Tail takes away the first.
LEMMA TailIs ==
  ASSUME NEW S, NEW q \in Seq(S), q # <<>>, NEW t, t = Tail(q), NEW x, x = Head(q)
  PROVE  /\ t \in Seq(S) /\ x \in S /\ x = q[1] /\ Without(q, t, 1)
         /\ Len(q) \in Nat /\ Len(q) > 0 /\ Len(t) \in Nat /\ Len(q) = Len(t) + 1
<1>1. x \in S /\ t \in Seq(S) /\ Len(t) = Len(q) - 1 /\ \A i \in 1 .. Len(t) : t[i] = q[i + 1]
  BY HeadTailProperties
<1>2. x = q[1] /\ Len(q) \in Nat /\ Len(q) # 0
  BY EmptySeq, LenProperties
<1>3. Len(t) \in Nat /\ Len(q) = Len(t) + 1
  BY <1>1, <1>2
<1>4. Without(q, t, 1)
  <2>1. \A i \in 1 .. Len(t) : i + 1 = 1 + i
    BY <1>3
  <2>. QED  BY <1>1, <1>3, <2>1 DEF Without
<1>. QED  BY <1>1, <1>2, <1>3, <1>4

\* SubSeq cuts a queue in two: what is taken, and what is left.
LEMMA SubSeqIs ==
  ASSUME NEW S, NEW q \in Seq(S), NEW n \in 1 .. Len(q),
         NEW h, h = SubSeq(q, 1, n), NEW t, t = SubSeq(q, n + 1, Len(q))
  PROVE  h \in Seq(S) /\ t \in Seq(S) /\ First(q, h, n) /\ Without(q, t, n)
<1>1. Len(q) \in Nat /\ n \in Int /\ 1 <= n /\ n <= Len(q) /\ \A i \in 1 .. Len(q) : q[i] \in S
  BY LenProperties, ElementOfSeq
<1>2. /\ \A i \in 1 .. n : i \in 1 .. Len(q)
      /\ \A i \in n + 1 .. Len(q) : i \in 1 .. Len(q)
  BY <1>1
<1>3. h \in Seq(S) /\ Len(h) = n /\ \A i \in 1 .. n : h[i] = q[i]
  <2>1. /\ h \in Seq(S) /\ Len(h) = IF 1 <= n THEN n - 1 + 1 ELSE 0
        /\ \A i \in 1 .. n - 1 + 1 : h[i] = q[1 + i - 1]
    BY <1>1, <1>2, SubSeqProperties
  <2>2. n - 1 + 1 = n /\ \A i \in 1 .. n : 1 + i - 1 = i
    BY <1>1
  <2>. QED  BY <1>1, <2>1, <2>2
<1>4. t \in Seq(S) /\ Len(q) = Len(t) + n /\ \A i \in 1 .. Len(t) : t[i] = q[n + i]
  <2>1. PICK m \in Nat : m = Len(q) - n
    <3>1. Len(q) - n \in Nat
      BY <1>1
    <3>. QED  BY <3>1
  <2>2. /\ Len(q) - (n + 1) + 1 = m /\ n + 1 \in Int /\ (n + 1 <= Len(q) <=> m > 0)
        /\ \A i \in 1 .. m : n + 1 + i - 1 = n + i
    <3>1. PICK l \in Nat : l = Len(q)
      BY <1>1
    <3>2. l - (n + 1) + 1 = m /\ n + 1 \in Int /\ (n + 1 <= l <=> m > 0)
      BY <1>1, <2>1, <3>1
    <3>3. \A i \in 1 .. m : n + 1 + i - 1 = n + i
      BY <1>1
    <3>. QED  BY <3>1, <3>2, <3>3
  <2>3. /\ t \in Seq(S) /\ Len(t) = IF n + 1 <= Len(q) THEN Len(q) - (n + 1) + 1 ELSE 0
        /\ \A i \in 1 .. Len(q) - (n + 1) + 1 : t[i] = q[n + 1 + i - 1]
    BY <1>1, <1>2, <2>2, SubSeqProperties
  <2>4. Len(t) = m /\ Len(q) = m + n
    BY <1>1, <2>1, <2>2, <2>3
  <2>5. \A i \in 1 .. m : t[i] = q[n + i]
    BY <2>2, <2>3
  <2>. QED  BY <2>3, <2>4, <2>5
<1>. QED  BY <1>1, <1>3, <1>4 DEF First, Without

\* Append puts one more behind.
LEMMA AppendIs ==
  ASSUME NEW S, NEW q \in Seq(S), NEW x \in S, NEW t, t = Append(q, x)
  PROVE  t \in Seq(S) /\ With(q, x, t) /\ Len(q) \in Nat
BY AppendProperties, LenProperties DEF With

\* FiniteSetsExt's Min, of two.
LEMMA MinIs ==
  ASSUME NEW a \in Nat, NEW b \in Nat
  PROVE  Min({a, b}) = IF a <= b THEN a ELSE b
<1>1. PICK x : x = IF a <= b THEN a ELSE b
  OBVIOUS
<1>2. x \in {a, b} /\ (\A y \in {a, b} : x <= y) /\ x \in Nat
  BY <1>1
<1>3. Min({a, b}) \in {a, b} /\ \A y \in {a, b} : Min({a, b}) <= y
  BY <1>2 DEF Min
<1>. QED  BY <1>1, <1>2, <1>3

\* Numbers that follow each other, in what is left of a queue, and in a longer one.
LEMMA Follows ==
  ASSUME NEW q \in Seq(Msgs), NEW t \in Seq(Msgs), NEW s, NEW k \in Nat, NEW n \in Nat, Follow(q, s, k)
  PROVE  /\ Without(q, t, n) => Follow(t, s, k + n)
         /\ First(q, t, n) => Follow(t, s, k)
         /\ \A x : With(q, x, t) /\ x.str = s /\ x.num = k + Len(q) + 1 => Follow(t, s, k)
<1>1. Len(q) \in Nat /\ Len(t) \in Nat
  BY LenProperties
<1>2. \A i \in 1 .. Len(q) : q[i].str = s /\ q[i].num = k + i
  BY DEF Follow
<1>3. ASSUME Without(q, t, n) PROVE Follow(t, s, k + n)
  <2>1. Len(q) = Len(t) + n /\ \A i \in 1 .. Len(t) : t[i] = q[n + i]
    BY <1>3 DEF Without
  <2>2. \A i \in 1 .. Len(t) : n + i \in 1 .. Len(q) /\ k + (n + i) = k + n + i
    BY <1>1, <2>1
  <2>. QED  BY <1>2, <2>1, <2>2 DEF Follow
<1>4. ASSUME First(q, t, n) PROVE Follow(t, s, k)
  <2>1. Len(t) = n /\ n <= Len(q) /\ \A i \in 1 .. n : t[i] = q[i]
    BY <1>4 DEF First
  <2>2. \A i \in 1 .. n : i \in 1 .. Len(q)
    BY <1>1, <2>1
  <2>. QED  BY <1>2, <2>1, <2>2 DEF Follow
<1>5. ASSUME NEW x, With(q, x, t), x.str = s, x.num = k + Len(q) + 1 PROVE Follow(t, s, k)
  <2>1. Len(t) = Len(q) + 1 /\ t[Len(q) + 1] = x /\ \A i \in 1 .. Len(q) : t[i] = q[i]
    BY <1>5 DEF With
  <2>2. \A i \in 1 .. Len(t) : i \in 1 .. Len(q) \/ i = Len(q) + 1
    BY <1>1, <2>1
  <2>3. k + Len(q) + 1 = k + (Len(q) + 1)
    BY <1>1
  <2>4. ASSUME NEW i \in 1 .. Len(t) PROVE t[i].str = s /\ t[i].num = k + i
    <3>1. CASE i \in 1 .. Len(q)
      BY <1>2, <2>1, <3>1
    <3>2. CASE i = Len(q) + 1
      BY <1>5, <2>1, <2>3, <3>2
    <3>. QED  BY <2>2, <3>1, <3>2
  <2>. QED  BY <2>4 DEF Follow
<1>. QED  BY <1>3, <1>4, <1>5

-----------------------------------------------------------------------------
(* The way of a stream's messages: u, the server's hands h, d[r].          *)

Flows(d, h, u, a, b, s, r) ==
  /\ \A q \in Strms : \A i \in 1 .. Len(d[q]) : d[q][i].str = s <=> q = r
  /\ Follow(d[r], s, a) /\ Follow(h, s, a + Len(d[r])) /\ Follow(u, s, a + Len(d[r]) + Len(h))
  /\ b = a + Len(d[r]) + Len(h) + Len(u)

\* UnderWay says of the variables what Flows says of their values.
LEMMA UnderIs ==
  ASSUME NEW c, NEW s, NEW r
  PROVE  /\ UnderWay(c, s, r) <=> Flows(down[c], Mine(c, s), up[c][s], seen[c][s], sent[c][s], s, r)
         /\ UnderWay(c, s, r)' <=> Flows(down'[c], Mine(c, s)', up'[c][s], seen'[c][s], sent'[c][s], s, r)
BY DEF UnderWay, OnlyOn, Flows, Follow

\* A message goes out.
LEMMA FlowsOut ==
  ASSUME NEW d \in Queues, NEW h \in Seq(Msgs), NEW u \in Seq(Msgs), NEW t \in Seq(Msgs), NEW a \in Nat,
         NEW b \in Nat, NEW s, NEW r \in Strms, NEW x, With(u, x, t), x.str = s, x.num = b + 1,
         Flows(d, h, u, a, b, s, r)
  PROVE  Flows(d, h, t, a, b + 1, s, r)
<1>1. Len(d[r]) \in Nat /\ Len(h) \in Nat /\ Len(u) \in Nat /\ Len(t) = Len(u) + 1
  BY LenProperties DEF Queues, With
<1>2. PICK k \in Nat : k = a + Len(d[r]) + Len(h)
  BY <1>1
<1>3. Follow(u, s, k) /\ b = k + Len(u)
  BY <1>2 DEF Flows
<1>4. x.num = k + Len(u) + 1 /\ b + 1 = k + Len(t)
  BY <1>1, <1>3
<1>5. Follow(t, s, k)
  BY <1>3, <1>4, Follows
<1>. QED  BY <1>2, <1>4, <1>5 DEF Flows

\* The server takes the first n that wait.
LEMMA FlowsTaken ==
  ASSUME NEW d \in Queues, NEW e \in Seq(Msgs), Len(e) = 0, NEW u \in Seq(Msgs), NEW h \in Seq(Msgs),
         NEW t \in Seq(Msgs), NEW n \in Nat, First(u, h, n), Without(u, t, n), NEW a \in Nat, NEW b \in Nat,
         NEW s, NEW r \in Strms, Flows(d, e, u, a, b, s, r)
  PROVE  Flows(d, h, t, a, b, s, r)
<1>1. /\ Len(d[r]) \in Nat /\ Len(u) \in Nat /\ Len(t) \in Nat /\ Len(h) = n /\ Len(u) = Len(t) + n
  BY LenProperties DEF Queues, First, Without
<1>2. PICK k \in Nat : k = a + Len(d[r])
  BY <1>1
<1>3. Follow(u, s, k) /\ b = k + Len(u)
  <2>1. Follow(u, s, k + 0) /\ b = k + 0 + Len(u)
    BY <1>2 DEF Flows
  <2>. QED  BY <1>1, <2>1
<1>4. Follow(h, s, k) /\ Follow(t, s, k + n) /\ b = k + n + Len(t)
  <2>1. Follow(h, s, k)
    BY <1>3, Follows
  <2>2. Follow(t, s, k + n)
    BY <1>3, Follows
  <2>. QED  BY <1>1, <1>3, <2>1, <2>2
<1>. QED  BY <1>1, <1>2, <1>4 DEF Flows

\* The client takes the first n of what is there for it.
LEMMA FlowsIn ==
  ASSUME NEW d \in Queues, NEW e \in Queues, NEW h \in Seq(Msgs), NEW u \in Seq(Msgs), NEW n \in Nat,
         NEW a \in Nat, NEW b \in Nat, NEW s, NEW r \in Strms, Without(d[r], e[r], n),
         \A q \in Strms : q # r => e[q] = d[q], Flows(d, h, u, a, b, s, r)
  PROVE  Flows(e, h, u, a + n, b, s, r)
<1>1. d[r] \in Seq(Msgs) /\ e[r] \in Seq(Msgs) /\ Len(d[r]) = Len(e[r]) + n
  BY DEF Queues, Without
<1>2. Len(d[r]) \in Nat /\ Len(e[r]) \in Nat /\ Len(h) \in Nat /\ Len(u) \in Nat
  BY <1>1, LenProperties
<1>3. a + Len(d[r]) = a + n + Len(e[r])
  <2>1. PICK l \in Nat, m \in Nat : l = Len(d[r]) /\ m = Len(e[r])
    BY <1>2
  <2>2. l = m + n
    BY <1>1, <2>1
  <2>3. a + l = a + n + m
    BY <2>2
  <2>. QED  BY <2>1, <2>3
<1>4. Follow(d[r], s, a)
  BY DEF Flows
<1>5. Follow(e[r], s, a + n)
  <2>1. PICK q \in Seq(Msgs), t \in Seq(Msgs) : q = d[r] /\ t = e[r]
    BY <1>1
  <2>2. Follow(t, s, a + n)
    BY <1>4, <2>1, Follows
  <2>. QED  BY <2>1, <2>2
<1>6. ASSUME NEW q \in Strms, NEW i \in 1 .. Len(e[q]) PROVE e[q][i].str = s <=> q = r
  <2>1. CASE q = r
    BY <1>5, <1>6, <2>1 DEF Follow
  <2>2. CASE q # r
    BY <1>6, <2>2 DEF Flows
  <2>. QED  BY <2>1, <2>2
<1>. QED  BY <1>3, <1>5, <1>6 DEF Flows

\* The server puts the first in its hands.
LEMMA FlowsPut ==
  ASSUME NEW d \in Queues, NEW e \in Queues, NEW h \in Seq(Msgs), NEW g \in Seq(Msgs), NEW u \in Seq(Msgs),
         NEW a \in Nat, NEW b \in Nat, NEW s, NEW r \in Strms, h # <<>>, Without(h, g, 1),
         With(d[r], h[1], e[r]), \A q \in Strms : q # r => e[q] = d[q], Flows(d, h, u, a, b, s, r)
  PROVE  Flows(e, g, u, a, b, s, r)
<1>1. d[r] \in Seq(Msgs) /\ e[r] \in Seq(Msgs) /\ Len(e[r]) = Len(d[r]) + 1 /\ Len(h) = Len(g) + 1
  BY DEF Queues, Without, With
<1>2. Len(d[r]) \in Nat /\ Len(e[r]) \in Nat /\ Len(h) \in Nat /\ Len(g) \in Nat /\ Len(u) \in Nat
  BY <1>1, LenProperties
<1>3. PICK k \in Nat : k = a + Len(d[r])
  BY <1>2
<1>4. Follow(d[r], s, a) /\ Follow(h, s, k)
  BY <1>3 DEF Flows
<1>5. 1 \in 1 .. Len(h) /\ h[1].str = s /\ h[1].num = a + Len(d[r]) + 1
  <2>1. 1 \in 1 .. Len(h)
    BY <1>1, <1>2
  <2>. QED  BY <1>3, <1>4, <2>1 DEF Follow
<1>6. Follow(e[r], s, a)
  <2>1. PICK q \in Seq(Msgs), t \in Seq(Msgs) : q = d[r] /\ t = e[r]
    BY <1>1
  <2>2. With(q, h[1], t) /\ h[1].str = s /\ h[1].num = a + Len(q) + 1 /\ Follow(q, s, a)
    BY <1>4, <1>5, <2>1
  <2>3. Follow(t, s, a)
    BY <2>2, Follows
  <2>. QED  BY <2>1, <2>3
<1>7. Follow(g, s, k + 1)
  BY <1>4, Follows
<1>8. k + 1 = a + Len(e[r]) /\ k + Len(h) = k + 1 + Len(g) /\ k + Len(h) + Len(u) = k + 1 + Len(g) + Len(u)
  <2>1. PICK l \in Nat, m \in Nat, x \in Nat, y \in Nat, z \in Nat :
          l = Len(d[r]) /\ m = Len(e[r]) /\ x = Len(h) /\ y = Len(g) /\ z = Len(u)
    BY <1>2
  <2>2. m = l + 1 /\ x = y + 1 /\ k = a + l
    BY <1>1, <1>3, <2>1
  <2>3. k + 1 = a + m /\ k + x = k + 1 + y /\ k + x + z = k + 1 + y + z
    BY <2>2
  <2>. QED  BY <2>1, <2>3
<1>9. ASSUME NEW q \in Strms, NEW i \in 1 .. Len(e[q]) PROVE e[q][i].str = s <=> q = r
  <2>1. CASE q = r
    BY <1>6, <1>9, <2>1 DEF Follow
  <2>2. CASE q # r
    BY <1>9, <2>2 DEF Flows
  <2>. QED  BY <2>1, <2>2
<1>10. Follow(u, s, k + Len(h)) /\ b = k + Len(h) + Len(u)
  BY <1>3 DEF Flows
<1>. QED  BY <1>6, <1>7, <1>8, <1>9, <1>10 DEF Flows

\* What happens on another stream's way.
LEMMA FlowsOther ==
  ASSUME NEW d \in Queues, NEW e \in Queues, NEW h, NEW u, NEW a, NEW b, NEW s, NEW r \in Strms,
         NEW k \in Strms, k # r, \A q \in Strms : q # k => e[q] = d[q],
         \/ \E n \in Nat : Without(d[k], e[k], n)
         \/ \E x : With(d[k], x, e[k]) /\ x.str # s,
         Flows(d, h, u, a, b, s, r)
  PROVE  Flows(e, h, u, a, b, s, r)
<1>1. Len(d[k]) \in Nat /\ Len(e[k]) \in Nat /\ e[r] = d[r]
  BY LenProperties DEF Queues
<1>2. \A i \in 1 .. Len(d[k]) : d[k][i].str # s
  BY DEF Flows
<1>3. ASSUME NEW i \in 1 .. Len(e[k]) PROVE e[k][i].str # s
  <2>1. ASSUME NEW n \in Nat, Without(d[k], e[k], n) PROVE e[k][i].str # s
    <3>1. Len(d[k]) = Len(e[k]) + n /\ e[k][i] = d[k][n + i]
      BY <1>3, <2>1 DEF Without
    <3>2. n + i \in 1 .. Len(d[k])
      BY <1>1, <1>3, <3>1
    <3>. QED  BY <1>2, <3>1, <3>2
  <2>2. ASSUME NEW x, With(d[k], x, e[k]), x.str # s PROVE e[k][i].str # s
    <3>1. /\ Len(e[k]) = Len(d[k]) + 1 /\ e[k][Len(d[k]) + 1] = x
          /\ \A j \in 1 .. Len(d[k]) : e[k][j] = d[k][j]
      BY <2>2 DEF With
    <3>2. i \in 1 .. Len(d[k]) \/ i = Len(d[k]) + 1
      BY <1>1, <1>3, <3>1
    <3>. QED  BY <1>2, <2>2, <3>1, <3>2
  <2>. QED  BY <2>1, <2>2
<1>4. ASSUME NEW q \in Strms, NEW i \in 1 .. Len(e[q]) PROVE e[q][i].str = s <=> q = r
  <2>1. CASE q = k
    BY <1>3, <1>4, <2>1
  <2>2. CASE q # k
    BY <1>4, <2>2 DEF Flows
  <2>. QED  BY <2>1, <2>2
<1>. QED  BY <1>1, <1>4 DEF Flows

-----------------------------------------------------------------------------
(* What a step leaves alone.                                               *)

\* The types of what one client has.
LEMMA ClientHas ==
  ASSUME FlowTypes, NEW c \in Clients
  PROVE  /\ up[c] \in Queues /\ down[c] \in Queues
         /\ todo[c] \in Seq(Strms \X BOOLEAN) /\ await[c] \in 0 .. Asked
         /\ streams[c] \in Nat /\ streams[c] > 0 /\ \A k \in Nat : k < streams[c] => k \in Strms
         /\ \A s \in Strms : /\ sent[c][s] \in Nat /\ seen[c][s] \in Nat /\ Mine(c, s) \in Seq(Msgs)
                             /\ up[c][s] \in Seq(Msgs) /\ down[c][s] \in Seq(Msgs)
<1>1. /\ up[c] \in Queues /\ down[c] \in Queues /\ todo[c] \in Seq(Strms \X BOOLEAN) /\ await[c] \in 0 .. Asked
      /\ sent[c] \in [Strms -> Nat] /\ seen[c] \in [Strms -> Nat] /\ streams[c] \in StreamCounts \cup {1}
  BY DEF FlowTypes
<1>2. streams[c] \in Nat /\ streams[c] > 0 /\ \A k \in Nat : k < streams[c] => k \in Strms
  BY <1>1, StrmsAre
<1>3. \A s : Mine(c, s) \in Seq(Msgs)
  BY EmptySeq DEF FlowTypes, Mine
<1>. QED  BY <1>1, <1>2, <1>3 DEF Queues

Stays(c) ==
  /\ cpc'[c] = cpc[c] /\ todo'[c] = todo[c] /\ await'[c] = await[c]
  /\ up'[c] = up[c] /\ down'[c] = down[c] /\ sent'[c] = sent[c] /\ seen'[c] = seen[c]

\* A step that changes nothing a connection holds keeps Chain,
LEMMA ChainStays ==
  ASSUME NEW c \in Clients, Chain(c), UNCHANGED program, UNCHANGED <<up[c], down[c], sent[c], seen[c]>>,
         \A s \in Strms : Mine(c, s)' = Mine(c, s)
  PROVE  Chain(c)'
<1>1. \A s : Back(c, s)' = Back(c, s)
  BY DEF Back, program
<1>2. ASSUME NEW s \in Strms PROVE UnderWay(c, s, Back(c, s))'
  <2>1. PICK r : r = Back(c, s)
    OBVIOUS
  <2>2. Flows(down[c], Mine(c, s), up[c][s], seen[c][s], sent[c][s], s, r)
    BY <2>1, UnderIs DEF Chain
  <2>3. UnderWay(c, s, r)'
    BY <2>2, UnderIs
  <2>4. UnderWay(c, s, Back(c, s))' <=> UnderWay(c, s, r)'
    BY <1>1, <2>1 DEF UnderWay, OnlyOn, Follow
  <2>. QED  BY <2>3, <2>4
<1>. QED  BY <1>2 DEF Chain

\* Round,
LEMMA RoundStays ==
  ASSUME NEW c, Round(c), UNCHANGED <<cpc[c], todo[c], await[c], sent[c], seen[c]>>
  PROVE  Round(c)'
BY DEF Round, Out

\* and Placed,
LEMMA PlacedStays ==
  ASSUME NEW c, Placed(c), UNCHANGED program, UNCHANGED <<cpc[c], todo[c], up[c], down[c]>>
  PROVE  Placed(c)'
BY DEF Placed, program, Buffered

\* and so what is right of a client stays right while others step.
LEMMA RightStays ==
  ASSUME NEW c \in Clients, Right(c), UNCHANGED program, Stays(c),
         spc' # "dead" => spc # "dead", \A s \in Strms : Mine(c, s)' = Mine(c, s)
  PROVE  Right(c)'
<1>1. Placed(c)'
  BY PlacedStays DEF Right, Stays
<1>2. spc' # "dead" /\ ~Gone(c)' => Chain(c)'
  BY ChainStays DEF Right, Stays, Gone
<1>3. ~Gone(c)' /\ mode'[c] # "select" => Round(c)'
  BY RoundStays DEF Right, Stays, Gone, program
<1>. QED  BY <1>1, <1>2, <1>3 DEF Right

\* A step of one client is as good as what it does to that client.
LEMMA OnlyOne ==
  ASSUME FlowInv, NEW c \in Clients, FlowTypes', Right(c)', UNCHANGED <<program, server>>,
         \A d \in Clients : d # c => Stays(d), Gone(c) => Gone(c)'
  PROVE  FlowInv'
<1>1. \A d, s : Mine(d, s)' = Mine(d, s)
  BY DEF Mine, server
<1>2. ASSUME NEW d \in Clients PROVE Right(d)'
  <2>1. CASE d # c
    BY <1>1, <2>1, RightStays DEF FlowInv, server
  <2>. QED  BY <2>1
<1>3. ASSUME spc' = "send", ~Gone(from)' PROVE Answering'
  <2>1. spc = "send" /\ from' = from /\ held' = held /\ dest' = dest /\ from \in Clients
    BY <1>3 DEF FlowInv, FlowTypes, server
  <2>2. ~Gone(from)
    <3>1. CASE from = c
      BY <1>3, <2>1, <3>1 DEF Gone
    <3>2. CASE from # c
      BY <1>3, <2>1, <3>2 DEF Gone, Stays
    <3>. QED  BY <3>1, <3>2
  <2>3. Answering
    BY <2>1, <2>2 DEF FlowInv
  <2>. QED  BY <2>1, <2>3 DEF Answering, Back, program
<1>. QED  BY <1>2, <1>3 DEF FlowInv

-----------------------------------------------------------------------------
(* The clients.                                                            *)

\* A client that has nothing out awaits nothing, and the other way round.
LEMMA OutIs ==
  ASSUME NEW c
  PROVE  IsFiniteSet(Out(c)) /\ Cardinality(Out(c)) \in Nat /\ (Cardinality(Out(c)) = 0 <=> Out(c) = {})
<1>1. Out(c) \subseteq Strms
  BY DEF Out
<1>2. IsFiniteSet(Out(c))
  BY <1>1, StrmsAre, FS_Subset, Zenon
<1>. QED  BY <1>2, FS_CardinalityType, FS_EmptySet

\* The lines that are typed ask on as many streams as answers are awaited.
LEMMA LinesAre ==
  ASSUME NEW k \in {"one", "all"}, NEW l \in Lines(k)
  PROVE  /\ l \in Seq(Strms \X BOOLEAN) /\ Len(l) = Answers(k) /\ Answers(k) \in 1 .. Asked
         /\ \A i, j \in 1 .. Len(l) : i < j => l[i][1] # l[j][1]
         /\ \A i \in 1 .. Len(l) : l[i][1] \in Strms
<1>1. CASE k = "one"
  <2>1. PICK s \in Strms : l = <<<<s, FALSE>>>>
    BY <1>1 DEF Lines
  <2>2. Answers(k) = 1 /\ 1 \in 1 .. Asked
    BY <1>1, StrmsAre DEF Answers
  <2>3. PICK x : x = <<s, FALSE>>
    OBVIOUS
  <2>4. x \in Strms \X BOOLEAN /\ x[1] = s
    BY <2>3
  <2>5. l = <<x>>
    BY <2>1, <2>3
  <2>6. l \in Seq(Strms \X BOOLEAN) /\ Len(l) = 1 /\ l[1] = x
    BY <2>4, <2>5
  <2>. QED  BY <2>2, <2>4, <2>6
<1>2. CASE k = "all"
  <2>1. l = [i \in 1 .. Asked |-> <<i - 1, FALSE>>]
    BY <1>2 DEF Lines
  <2>2. Asked \in Nat /\ Asked > 0
    BY StrmsAre
  <2>3. \A i \in 1 .. Asked : i - 1 \in Strms
    <3>1. \A i \in 1 .. Asked : i - 1 \in Nat /\ i - 1 < Asked
      BY <2>2
    <3>. QED  BY <3>1, StrmsAre
  <2>4. l \in Seq(Strms \X BOOLEAN) /\ Len(l) = Asked
    <3>1. PICK n \in Nat : n = Asked
      BY <2>2
    <3>2. \A i \in 1 .. n : <<i - 1, FALSE>> \in Strms \X BOOLEAN
      BY <2>3, <3>1
    <3>3. l = [i \in 1 .. n |-> <<i - 1, FALSE>>]
      BY <2>1, <3>1
    <3>4. l \in [1 .. n -> Strms \X BOOLEAN]
      BY <3>2, <3>3
    <3>5. l \in Seq(Strms \X BOOLEAN)
      BY <3>4, SeqDef
    <3>6. DOMAIN l = 1 .. n /\ DOMAIN l = 1 .. Len(l) /\ Len(l) \in Nat
      BY <3>3, <3>5, LenProperties
    <3>. QED  BY <3>1, <3>5, <3>6
  <2>5. Answers(k) = Asked /\ Asked \in 1 .. Asked
    BY <1>2, <2>2 DEF Answers
  <2>6. \A i \in 1 .. Asked : l[i][1] = i - 1
    BY <2>1
  <2>. QED  BY <2>2, <2>3, <2>4, <2>5, <2>6
<1>. QED  BY <1>1, <1>2

\* A client of ch10 asks.
LEMMA AskKeeps ==
  ASSUME FlowInv, NEW c \in Clients, Ask(c)
  PROVE  FlowInv'
<1>. USE DEF counts
<1>1. FlowTypes /\ Right(c)
  BY DEF FlowInv
<1>2. PICK l \in Lines(mode[c]) : todo' = [todo EXCEPT ![c] = l]
  BY DEF Ask
<1>3. /\ UNCHANGED <<program, up, down, sent, seen, server>> /\ cpc[c] = "prompt"
      /\ await' = [await EXCEPT ![c] = Answers(mode[c])] /\ cpc' = [cpc EXCEPT ![c] = "send"]
      /\ mode[c] \in {"one", "all"}
  BY DEF Ask
<1>4. /\ l \in Seq(Strms \X BOOLEAN) /\ Len(l) = Answers(mode[c]) /\ Answers(mode[c]) \in 1 .. Asked
      /\ \A i, j \in 1 .. Len(l) : i < j => l[i][1] # l[j][1]
      /\ \A i \in 1 .. Len(l) : l[i][1] \in Strms
  BY <1>2, <1>3, LinesAre
<1>5. /\ todo'[c] = l /\ await'[c] = Answers(mode[c]) /\ cpc'[c] = "send"
      /\ \A d \in Clients : d # c => Stays(d)
  BY <1>1, <1>2, <1>3 DEF FlowTypes, Stays
<1>6. FlowTypes'
  <2>1. todo' \in [Clients -> Seq(Strms \X BOOLEAN)]
    BY <1>1, <1>2, <1>4 DEF FlowTypes
  <2>2. PICK k : k = Answers(mode[c])
    OBVIOUS
  <2>3. k \in 0 .. Asked
    BY <1>4, <2>2, StrmsAre
  <2>4. await' \in [Clients -> 0 .. Asked]
    BY <1>1, <1>3, <2>2, <2>3 DEF FlowTypes
  <2>5. cpc' \in [Clients -> {"prompt", "send", "recv", "sock", "done"}]
    BY <1>1, <1>3 DEF FlowTypes
  <2>. QED  BY <1>1, <1>3, <2>1, <2>4, <2>5 DEF FlowTypes, program, server, Tcp, IsTcp
<1>7. l # <<>>
  <2>1. Len(l) # 0
    BY <1>4
  <2>. QED  BY <1>4, <2>1, EmptySeq
<1>8. Placed(c)'
  BY <1>1, <1>3, <1>5, <1>7 DEF Right, Placed, program, Buffered
<1>9. spc' # "dead" => Chain(c)'
  <2>1. \A s : Mine(c, s)' = Mine(c, s)
    BY <1>3 DEF Mine, server
  <2>. QED  BY <1>1, <1>3, <2>1, ChainStays DEF Right, server, Gone
<1>10. Round(c)'
  <2>1. Round(c)
    BY <1>1, <1>3 DEF Right, Gone
  <2>2. await[c] = 0 /\ Len(todo[c]) \in Nat /\ Cardinality(Out(c)) + Len(todo[c]) <= 0
    <3>1. Len(todo[c]) \in Nat
      BY <1>1, ClientHas, LenProperties
    <3>. QED  BY <1>3, <2>1, <3>1 DEF Round
  <2>3. Cardinality(Out(c)) = 0 /\ Out(c) = {}
    <3>1. Cardinality(Out(c)) = 0
      BY <2>2, OutIs
    <3>. QED  BY <3>1, OutIs
  <2>4. Out(c)' = Out(c)
    BY <1>3 DEF Out
  <2>5. Cardinality(Out(c)') + Len(l) <= Answers(mode[c])
    BY <1>4, <2>3, <2>4
  <2>6. \A s \in Strms : sent'[c][s] \in {seen'[c][s], seen'[c][s] + 1}
    BY <1>3, <2>1 DEF Round
  <2>. QED  BY <1>4, <1>5, <2>3, <2>4, <2>5, <2>6 DEF Round
<1>11. Right(c)'
  BY <1>8, <1>9, <1>10 DEF Right
<1>12. ~Gone(c)
  BY <1>3 DEF Gone
<1>. QED  BY <1>3, <1>5, <1>6, <1>11, <1>12, OnlyOne

\* select() reports something: only the client's own place changes, and what it
\* has to send.
LEMMA SelectKeeps ==
  ASSUME FlowInv, NEW c \in Clients, SelectInput(c) \/ SelectSocket(c)
  PROVE  FlowInv'
<1>. USE DEF counts
<1>1. FlowTypes /\ Right(c)
  BY DEF FlowInv
<1>2. /\ UNCHANGED <<program, await, up, down, sent, seen, server>> /\ cpc[c] = "prompt"
      /\ mode[c] = "select"
  BY DEF SelectInput, SelectSocket
<1>3. \E l \in Seq(Strms \X BOOLEAN), v \in {"send", "sock"} :
        /\ todo' = [todo EXCEPT ![c] = l] /\ cpc' = [cpc EXCEPT ![c] = v]
        /\ v = "send" => l # <<>>
  <2>1. CASE SelectInput(c)
    <3>0. PICK n \in 1 .. Min({Chunk, MaxTyped["select"] - lines[c]}) :
            \E w \in [1 .. n -> BOOLEAN] : todo' = [todo EXCEPT ![c] = [i \in 1 .. n |-> <<0, w[i]>>]]
      BY <2>1 DEF SelectInput
    <3>1. PICK w \in [1 .. n -> BOOLEAN] : todo' = [todo EXCEPT ![c] = [i \in 1 .. n |-> <<0, w[i]>>]]
      BY <3>0
    <3>2. PICK l : l = [i \in 1 .. n |-> <<0, w[i]>>]
      OBVIOUS
    <3>3. n \in Nat /\ n > 0 /\ 0 \in Strms
      BY StrmsAre
    <3>4. l \in Seq(Strms \X BOOLEAN) /\ Len(l) = n
      BY <3>2, <3>3
    <3>5. l # <<>>
      BY <3>3, <3>4, EmptySeq
    <3>. QED  BY <2>1, <3>1, <3>2, <3>4, <3>5 DEF SelectInput
  <2>2. CASE SelectSocket(c)
    <3>1. todo' = [todo EXCEPT ![c] = todo[c]] /\ todo[c] \in Seq(Strms \X BOOLEAN)
      BY <1>1, <2>2 DEF SelectSocket, FlowTypes
    <3>. QED  BY <2>2, <3>1 DEF SelectSocket
  <2>. QED  BY <2>1, <2>2
<1>4. PICK l \in Seq(Strms \X BOOLEAN), v \in {"send", "sock"} :
        /\ todo' = [todo EXCEPT ![c] = l] /\ cpc' = [cpc EXCEPT ![c] = v]
        /\ v = "send" => l # <<>>
  BY <1>3
<1>5. todo'[c] = l /\ cpc'[c] = v /\ \A d \in Clients : d # c => Stays(d)
  BY <1>1, <1>2, <1>4 DEF FlowTypes, Stays
<1>6. FlowTypes'
  <2>1. /\ todo' \in [Clients -> Seq(Strms \X BOOLEAN)]
        /\ cpc' \in [Clients -> {"prompt", "send", "recv", "sock", "done"}]
    BY <1>1, <1>4 DEF FlowTypes
  <2>. QED  BY <1>1, <1>2, <2>1 DEF FlowTypes, program, server, Tcp, IsTcp
<1>7. Placed(c)'
  BY <1>1, <1>2, <1>4, <1>5 DEF Right, Placed, program, Buffered
<1>8. spc' # "dead" => Chain(c)'
  <2>1. \A s : Mine(c, s)' = Mine(c, s)
    BY <1>2 DEF Mine, server
  <2>. QED  BY <1>1, <1>2, <2>1, ChainStays DEF Right, server, Gone
<1>9. Right(c)'
  BY <1>2, <1>7, <1>8 DEF Right, program
<1>10. ~Gone(c)
  BY <1>2 DEF Gone
<1>. QED  BY <1>2, <1>5, <1>6, <1>9, <1>10, OnlyOne

\* A client leaves.
LEMMA LeftKeeps ==
  ASSUME FlowInv, NEW c \in Clients, Left(c)
  PROVE  FlowInv'
<1>. USE DEF counts
<1>1. FlowTypes /\ Right(c)
  BY DEF FlowInv
<1>2. PICK e : e = [s \in Strms |-> <<>>]
  OBVIOUS
<1>3. /\ UNCHANGED <<program, todo, await, up, sent, seen, server>>
      /\ cpc' = [cpc EXCEPT ![c] = "done"] /\ down' = [down EXCEPT ![c] = e]
  BY <1>2 DEF Left
<1>4. e \in Queues /\ \A s \in Strms : e[s] = <<>> /\ Len(e[s]) = 0
  BY <1>2, EmptySeq DEF Queues
<1>5. cpc'[c] = "done" /\ down'[c] = e /\ \A d \in Clients : d # c => Stays(d)
  BY <1>1, <1>3 DEF FlowTypes, Stays
<1>6. FlowTypes'
  <2>1. /\ down' \in [Clients -> Queues]
        /\ cpc' \in [Clients -> {"prompt", "send", "recv", "sock", "done"}]
    BY <1>1, <1>3, <1>4 DEF FlowTypes
  <2>. QED  BY <1>1, <1>3, <2>1 DEF FlowTypes, program, server, Tcp, IsTcp
<1>7. Buffered(e) <= Room
  <2>1. down[c] \in Queues
    BY <1>1, ClientHas
  <2>2. \A s \in Strms : Len(e[s]) <= Len(down[c][s])
    BY <1>4, <2>1, LenProperties DEF Queues
  <2>3. Buffered(e) <= Buffered(down[c])
    BY <1>4, <2>1, <2>2, LessBuffered
  <2>4. Buffered(e) \in Nat /\ Buffered(down[c]) \in Nat /\ Room \in Nat /\ Buffered(down[c]) <= Room
    BY <1>1, <1>4, <2>1, InPlaces, StrmsAre DEF Right, Placed
  <2>. QED  BY <2>3, <2>4
<1>8. Placed(c)'
  <2>1. Buffered(down[c])' <= Room
    BY <1>5, <1>7 DEF Buffered
  <2>2. Buffered(up[c])' <= Room
    BY <1>1, <1>3 DEF Buffered, Right, Placed
  <2>. QED  BY <1>1, <1>3, <1>4, <1>5, <2>1, <2>2 DEF Right, Placed, program
<1>9. Gone(c)'
  BY <1>5 DEF Gone
<1>10. Right(c)'
  BY <1>8, <1>9 DEF Right
<1>. QED  BY <1>3, <1>5, <1>6, <1>9, <1>10, OnlyOne

\* No two streams have their answers on the same.
LEMMA BackOnce ==
  ASSUME FlowTypes, NEW c \in Clients, NEW s \in Strms
  PROVE  /\ Back(c, s) \in Strms /\ (s < streams[c] <=> Back(c, s) < streams[c])
         /\ \A k \in Strms : k # s => Back(c, k) # Back(c, s)
<1>1. streams[c] \in Nat /\ streams[c] > 0 /\ \A k \in Nat : k < streams[c] => k \in Strms
  BY ClientHas
<1>2. Strms \subseteq Nat
  BY StrmsAre
<1>3. ASSUME NEW k \in Strms
      PROVE  Back(c, k) \in Nat /\ (k < streams[c] <=> Back(c, k) < streams[c]) /\ Back(c, k) \in Strms
  <2>1. PICK n \in Nat, j \in Nat : n = streams[c] /\ j = k /\ n > 0
    BY <1>1, <1>2
  <2>2. Back(c, k) = IF j >= n \/ ~increment THEN j ELSE IF j + 1 = n THEN 0 ELSE j + 1
    BY <2>1 DEF Back
  <2>3. Back(c, k) \in Nat /\ (j < n <=> Back(c, k) < n) /\ (j >= n => Back(c, k) = j)
    BY <2>1, <2>2
  <2>. QED  BY <1>1, <2>1, <2>3
<1>4. ASSUME NEW k \in Strms, k # s PROVE Back(c, k) # Back(c, s)
  <2>1. PICK n \in Nat, i \in Nat, j \in Nat : n = streams[c] /\ i = s /\ j = k /\ i # j /\ n > 0
    BY <1>1, <1>2, <1>4
  <2>2. /\ Back(c, k) = IF j >= n \/ ~increment THEN j ELSE IF j + 1 = n THEN 0 ELSE j + 1
        /\ Back(c, s) = IF i >= n \/ ~increment THEN i ELSE IF i + 1 = n THEN 0 ELSE i + 1
    BY <2>1 DEF Back
  <2>. QED  BY <2>1, <2>2
<1>. QED  BY <1>3, <1>4

\* What a connection holds after a step, stream by stream.
LEMMA ChainNow ==
  ASSUME NEW c \in Clients, UNCHANGED program,
         \A s \in Strms : \E r : /\ r = Back(c, s)
                                 /\ Flows(down'[c], Mine(c, s)', up'[c][s], seen'[c][s], sent'[c][s], s, r)
  PROVE  Chain(c)'
<1>1. \A s : Back(c, s)' = Back(c, s)
  BY DEF Back, program
<1>2. ASSUME NEW s \in Strms PROVE UnderWay(c, s, Back(c, s))'
  <2>1. PICK r : /\ r = Back(c, s)
                 /\ Flows(down'[c], Mine(c, s)', up'[c][s], seen'[c][s], sent'[c][s], s, r)
    OBVIOUS
  <2>2. UnderWay(c, s, r)'
    BY <2>1, UnderIs
  <2>3. UnderWay(c, s, Back(c, s))' <=> UnderWay(c, s, r)'
    BY <1>1, <2>1 DEF UnderWay, OnlyOn, Follow
  <2>. QED  BY <2>2, <2>3
<1>. QED  BY <1>2 DEF Chain

\* One place of one connection is changed.
LEMMA OnePlace ==
  ASSUME NEW S, NEW f \in [Clients -> [Strms -> S]], NEW c \in Clients, NEW s \in Strms, NEW x \in S,
         NEW g, g = [f EXCEPT ![c][s] = x]
  PROVE  /\ g \in [Clients -> [Strms -> S]] /\ g[c] \in [Strms -> S] /\ g[c][s] = x
         /\ \A k \in Strms : k # s => g[c][k] = f[c][k]
         /\ \A d \in Clients : d # c => g[d] = f[d]
OBVIOUS

\* What is to be sent, before and after the first of it.
Distinct(l)  == \A i, j \in 1 .. Len(l) : i < j => l[i][1] # l[j][1]
Among(l, t)  == \A i \in 1 .. Len(t) : t[i][1] # l[1][1] /\ \E j \in 1 .. Len(l) : t[i][1] = l[j][1]

\* No two items of what is to be sent are for the same stream, nor of what is left.
LEMMA Shorter ==
  ASSUME NEW l \in Seq(Strms \X BOOLEAN), NEW t \in Seq(Strms \X BOOLEAN), Without(l, t, 1),
         Distinct(l)
  PROVE  Distinct(t) /\ Among(l, t)
<1>1. PICK n \in Nat : n = Len(t)
  BY LenProperties
<1>2. Len(l) = n + 1 /\ \A i \in 1 .. n : t[i] = l[1 + i]
  BY <1>1 DEF Without
<1>3. \A i, j \in 1 .. n + 1 : i < j => l[i][1] # l[j][1]
  BY <1>2 DEF Distinct
<1>4. ASSUME NEW i \in 1 .. n, NEW j \in 1 .. n, i < j PROVE t[i][1] # t[j][1]
  <2>1. 1 + i \in 1 .. n + 1 /\ 1 + j \in 1 .. n + 1 /\ 1 + i < 1 + j
    BY <1>1, <1>4
  <2>. QED  BY <1>2, <1>3, <2>1
<1>5. ASSUME NEW i \in 1 .. n PROVE t[i][1] # l[1][1] /\ \E j \in 1 .. n + 1 : t[i][1] = l[j][1]
  <2>1. 1 \in 1 .. n + 1 /\ 1 + i \in 1 .. n + 1 /\ 1 < 1 + i
    BY <1>1
  <2>2. l[1][1] # l[1 + i][1]
    BY <1>3, <2>1
  <2>. QED  BY <1>2, <2>1, <2>2
<1>. QED  BY <1>1, <1>2, <1>4, <1>5 DEF Distinct, Among

\* A client sends the next item, or is refused it.
Goes(c, s, t, v) ==
  /\ t \in Seq(Strms \X BOOLEAN) /\ Without(todo[c], t, 1) /\ Len(todo[c]) = Len(t) + 1 /\ Len(t) \in Nat
  /\ s \in Strms /\ s = todo[c][1][1] /\ Head(todo[c])[1] = s
  /\ todo' = [todo EXCEPT ![c] = t] /\ cpc' = [cpc EXCEPT ![c] = v] /\ todo'[c] = t /\ cpc'[c] = v
  /\ v \in {"prompt", "send", "recv", "sock"} /\ (v = "sock" => mode[c] = "select")
  /\ (v = "recv" => mode[c] # "select") /\ (v = "prompt" => mode[c] = "select") /\ (v = "send" => t # <<>>)
  /\ UNCHANGED <<program, await, down, seen, server>> /\ mode[c] # "none" /\ ~Gone(c) /\ ~Gone(c)'
  /\ todo' \in [Clients -> Seq(Strms \X BOOLEAN)]
  /\ cpc' \in [Clients -> {"prompt", "send", "recv", "sock", "done"}]

\* Either way the item is gone from what is to be sent.
LEMMA SendGoes ==
  ASSUME FlowInv, NEW c \in Clients, Send(c)
  PROVE  \E s, t, v : Goes(c, s, t, v)
<1>1. FlowTypes /\ Right(c)
  BY DEF FlowInv
<1>2. cpc[c] = "send" /\ ~Gone(c) /\ todo[c] # <<>> /\ mode[c] # "none"
  BY <1>1 DEF Send, Gone, Right, Placed
<1>3. todo[c] \in Seq(Strms \X BOOLEAN)
  BY <1>1, ClientHas
<1>4. PICK t, x : t = Tail(todo[c]) /\ x = Head(todo[c])
  OBVIOUS
<1>5. /\ t \in Seq(Strms \X BOOLEAN) /\ x \in Strms \X BOOLEAN /\ x = todo[c][1] /\ Without(todo[c], t, 1)
      /\ Len(t) \in Nat /\ Len(todo[c]) = Len(t) + 1
  <2>1. PICK l \in Seq(Strms \X BOOLEAN) : l = todo[c] /\ l # <<>> /\ t = Tail(l) /\ x = Head(l)
    BY <1>2, <1>3, <1>4
  <2>2. /\ t \in Seq(Strms \X BOOLEAN) /\ x \in Strms \X BOOLEAN /\ x = l[1] /\ Without(l, t, 1)
        /\ Len(t) \in Nat /\ Len(l) = Len(t) + 1
    BY <2>1, TailIs
  <2>. QED  BY <2>1, <2>2
<1>6. PICK s, v : s = x[1] /\ v = IF Len(todo[c]) = 1 THEN AfterSend(c) ELSE "send"
  OBVIOUS
<1>7. s \in Strms /\ s = todo[c][1][1] /\ Head(todo[c])[1] = s
  BY <1>4, <1>5, <1>6
<1>8. /\ UNCHANGED <<program, await, down, seen, server>> /\ todo' = [todo EXCEPT ![c] = t]
      /\ cpc' = [cpc EXCEPT ![c] = v]
  BY <1>4, <1>6 DEF Send
<1>9. v = "send" => t # <<>>
  <2>1. ASSUME Len(todo[c]) # 1 PROVE t # <<>>
    <3>1. Len(t) # 0
      BY <1>5, <2>1
    <3>. QED  BY <1>5, <3>1, EmptySeq
  <2>2. AfterSend(c) # "send"
    BY DEF AfterSend
  <2>. QED  BY <1>6, <2>1, <2>2
<1>10. /\ v \in {"prompt", "send", "recv", "sock"} /\ (v = "sock" => mode[c] = "select")
       /\ (v = "recv" => mode[c] # "select") /\ (v = "prompt" => mode[c] = "select")
  BY <1>6 DEF AfterSend
<1>11. todo'[c] = t /\ todo' \in [Clients -> Seq(Strms \X BOOLEAN)]
  BY <1>1, <1>5, <1>8 DEF FlowTypes
<1>12. cpc'[c] = v /\ cpc' \in [Clients -> {"prompt", "send", "recv", "sock", "done"}]
  BY <1>1, <1>8, <1>10 DEF FlowTypes
<1>13. ~Gone(c)'
  BY <1>10, <1>12 DEF Gone
<1>14. Goes(c, s, t, v)
  BY <1>2, <1>5, <1>7, <1>8, <1>9, <1>10, <1>11, <1>12, <1>13 DEF Goes
<1>. QED  BY <1>14

\* An item that is refused is in no queue.
LEMMA RefusedKeeps ==
  ASSUME FlowInv, NEW c \in Clients, NEW s, NEW t, NEW v, Goes(c, s, t, v), UNCHANGED <<up, sent>>
  PROVE  FlowInv'
<1>1. FlowTypes /\ Right(c)
  BY DEF FlowInv
<1>2. \A d \in Clients : d # c => Stays(d)
  BY <1>1 DEF FlowTypes, Stays, Goes
<1>3. FlowTypes'
  BY <1>1 DEF Goes, FlowTypes, program, server, Tcp, IsTcp
<1>4. Placed(c)'
  BY <1>1 DEF Right, Placed, program, Buffered, Goes
<1>5. spc' # "dead" => Chain(c)'
  <2>1. \A k : Mine(c, k)' = Mine(c, k)
    BY DEF Mine, server, Goes
  <2>. QED  BY <1>1, <2>1, ChainStays DEF Right, server, Gone, Goes
<1>6. ASSUME mode'[c] # "select" PROVE Round(c)'
  <2>1. Round(c) /\ mode[c] # "select" /\ todo[c] \in Seq(Strms \X BOOLEAN) /\ await[c] \in Nat
    <3>1. await[c] \in 0 .. Asked /\ Asked \in Nat
      BY <1>1, ClientHas, StrmsAre
    <3>. QED  BY <1>1, <1>6, <3>1, ClientHas DEF Right, Goes, program
  <2>2. Out(c)' = Out(c)
    BY DEF Out, Goes
  <2>3. Cardinality(Out(c)) + Len(t) <= await[c]
    BY <2>1, OutIs DEF Round, Goes
  <2>4. /\ \A i, j \in 1 .. Len(t) : i < j => t[i][1] # t[j][1]
        /\ \A i \in 1 .. Len(t) : \E j \in 1 .. Len(todo[c]) : t[i][1] = todo[c][j][1]
    <3>1. t \in Seq(Strms \X BOOLEAN) /\ Without(todo[c], t, 1)
      BY DEF Goes
    <3>2. Distinct(todo[c])
      BY <2>1 DEF Round, Distinct
    <3>3. Distinct(t) /\ Among(todo[c], t)
      BY <2>1, <3>1, <3>2, Shorter
    <3>. QED  BY <3>3 DEF Distinct, Among
  <2>5. \A i \in 1 .. Len(t) : t[i][1] \notin Out(c)
    BY <2>1, <2>4 DEF Round
  <2>6. v # "prompt"
    BY <2>1 DEF Goes
  <2>. QED  BY <2>1, <2>2, <2>3, <2>4, <2>5, <2>6 DEF Round, Goes
<1>7. Right(c)'
  BY <1>4, <1>5, <1>6 DEF Right
<1>. QED  BY <1>2, <1>3, <1>7, OnlyOne DEF Goes

\* An item that is sent is the last of its stream.
LEMMA SentKeeps ==
  ASSUME FlowInv, NEW c \in Clients, NEW s, NEW t, NEW v, NEW m \in Msgs, Goes(c, s, t, v),
         s < streams[c], Buffered(up[c]) < Room, m.str = s, m.num = sent[c][s] + 1,
         sent' = [sent EXCEPT ![c][s] = @ + 1], up' = [up EXCEPT ![c][s] = Append(@, m)]
  PROVE  FlowInv'
<1>1. FlowTypes /\ Right(c) /\ s \in Strms
  BY DEF FlowInv, Goes
<1>2. PICK u, w, n : u = up[c][s] /\ w = Append(u, m) /\ n = sent[c][s]
  OBVIOUS
<1>3. u \in Seq(Msgs) /\ n \in Nat /\ up[c] \in Queues
  BY <1>1, <1>2, ClientHas
<1>4. w \in Seq(Msgs) /\ With(u, m, w) /\ Len(w) = Len(u) + 1
  BY <1>2, <1>3, AppendIs DEF With
<1>5. up' = [up EXCEPT ![c][s] = w] /\ sent' = [sent EXCEPT ![c][s] = n + 1]
  BY <1>2
<1>6. /\ up' \in [Clients -> Queues] /\ up'[c][s] = w /\ up'[c] \in Queues
      /\ \A k \in Strms : k # s => up'[c][k] = up[c][k]
      /\ \A d \in Clients : d # c => up'[d] = up[d]
  <2>1. up \in [Clients -> [Strms -> Seq(Msgs)]]
    BY <1>1 DEF FlowTypes, Queues
  <2>. QED  BY <1>1, <1>4, <1>5, <2>1, OnePlace DEF Queues
<1>7. n + 1 \in Nat
  BY <1>3
<1>8. /\ sent' \in [Clients -> [Strms -> Nat]] /\ sent'[c][s] = n + 1
      /\ \A k \in Strms : k # s => sent'[c][k] = sent[c][k]
      /\ \A d \in Clients : d # c => sent'[d] = sent[d]
  BY <1>1, <1>5, <1>7, OnePlace DEF FlowTypes
<1>9. \A d \in Clients : d # c => Stays(d)
  BY <1>1, <1>6, <1>8 DEF FlowTypes, Stays, Goes
<1>10. FlowTypes'
  BY <1>1, <1>6, <1>8 DEF Goes, FlowTypes, program, server, Tcp, IsTcp
<1>11. Placed(c)'
  <2>1. Buffered(up'[c]) <= Room
    <3>1. Buffered(up'[c]) = Buffered(up[c]) + 1
      <4>1. PICK q \in Queues, p \in Queues : q = up[c] /\ p = up'[c]
        BY <1>3, <1>6
      <4>2. Len(p[s]) = Len(q[s]) + 1 /\ \A k \in Strms : k # s => p[k] = q[k]
        BY <1>2, <1>4, <1>6, <4>1
      <4>3. Buffered(p) = Buffered(q) + 1
        BY <1>1, <4>2, MoreBuffered
      <4>. QED  BY <4>1, <4>3
    <3>2. Buffered(up[c]) \in Nat /\ Room \in Nat
      BY <1>3, InPlaces, StrmsAre
    <3>. QED  BY <3>1, <3>2
  <2>2. Buffered(up[c])' <= Room
    BY <2>1 DEF Buffered
  <2>3. Buffered(down[c])' <= Room
    BY <1>1 DEF Right, Placed, Buffered, Goes
  <2>4. \A k \in Strms : k >= streams[c] => k # s
    BY <1>1, StrmsAre, ClientHas
  <2>5. \A k \in Strms : k >= streams'[c] => up'[c][k] = <<>> /\ down'[c][k] = <<>>
    BY <1>1, <1>6, <2>4 DEF Right, Placed, Goes, program
  <2>. QED  BY <1>1, <2>2, <2>3, <2>5 DEF Right, Placed, program, Goes
<1>12. ASSUME spc' # "dead" PROVE Chain(c)'
  <2>1. Chain(c) /\ down'[c] = down[c] /\ down[c] \in Queues /\ seen' = seen
    BY <1>1, <1>12, ClientHas DEF Right, server, Goes
  <2>2. \A k : Mine(c, k)' = Mine(c, k)
    BY DEF Mine, server, Goes
  <2>3. ASSUME NEW k \in Strms
        PROVE  \E r : /\ r = Back(c, k)
                      /\ Flows(down'[c], Mine(c, k)', up'[c][k], seen'[c][k], sent'[c][k], k, r)
    <3>1. PICK r : r = Back(c, k) /\ r \in Strms
      BY <1>1, BackOnce
    <3>2. Flows(down[c], Mine(c, k), up[c][k], seen[c][k], sent[c][k], k, r)
      BY <2>1, <3>1, UnderIs DEF Chain
    <3>3. CASE k = s
      <4>1. PICK d \in Queues, h \in Seq(Msgs), a \in Nat : d = down[c] /\ h = Mine(c, s) /\ a = seen[c][s]
        BY <1>1, <2>1, ClientHas
      <4>2. Flows(d, h, u, a, n, s, r)
        BY <1>2, <3>2, <3>3, <4>1
      <4>3. Flows(d, h, w, a, n + 1, s, r)
        BY <1>2, <1>3, <1>4, <3>1, <4>2, FlowsOut
      <4>4. up'[c][s] = w /\ sent'[c][s] = n + 1 /\ seen'[c][s] = a /\ down'[c] = d /\ Mine(c, s)' = h
        BY <1>6, <1>8, <2>1, <2>2, <4>1
      <4>5. Flows(down'[c], Mine(c, s)', up'[c][s], seen'[c][s], sent'[c][s], s, r)
        BY <4>3, <4>4
      <4>. QED  BY <3>1, <3>3, <4>5
    <3>4. CASE k # s
      <4>1. up'[c][k] = up[c][k] /\ sent'[c][k] = sent[c][k] /\ seen'[c][k] = seen[c][k]
        BY <1>6, <1>8, <2>1, <3>4
      <4>2. Flows(down'[c], Mine(c, k)', up'[c][k], seen'[c][k], sent'[c][k], k, r)
        BY <2>1, <2>2, <3>2, <4>1
      <4>. QED  BY <3>1, <4>2
    <3>. QED  BY <3>3, <3>4
  <2>. QED  BY <2>3, ChainNow DEF Goes
<1>13. ASSUME mode'[c] # "select" PROVE Round(c)'
  <2>1. Round(c) /\ mode[c] # "select" /\ todo[c] \in Seq(Strms \X BOOLEAN) /\ await[c] \in Nat
    <3>1. await[c] \in 0 .. Asked /\ Asked \in Nat
      BY <1>1, ClientHas, StrmsAre
    <3>. QED  BY <1>1, <1>13, <3>1, ClientHas DEF Right, Goes, program
  <2>2. s \notin Out(c) /\ n = seen[c][s] /\ seen' = seen
    <3>1. 1 \in 1 .. Len(todo[c]) /\ s = todo[c][1][1]
      BY DEF Goes
    <3>2. s \notin Out(c)
      BY <2>1, <3>1 DEF Round
    <3>. QED  BY <1>1, <1>2, <3>2 DEF Out, Goes
  <2>3. PICK O : O = Out(c)'
    OBVIOUS
  <2>4. O = Out(c) \cup {s}
    <3>1. ASSUME NEW k \in Strms PROVE sent'[c][k] # seen'[c][k] <=> (k \in Out(c) \/ k = s)
      <4>1. CASE k = s
        BY <1>3, <1>8, <2>2, <4>1
      <4>2. CASE k # s
        BY <1>8, <2>2, <4>2 DEF Out
      <4>. QED  BY <4>1, <4>2
    <3>2. O = {k \in Strms : sent'[c][k] # seen'[c][k]} /\ Out(c) \subseteq Strms
      BY <2>3 DEF Out
    <3>. QED  BY <1>1, <3>1, <3>2
  <2>5. Cardinality(O) + Len(t) <= await[c]
    <3>1. Cardinality(O) = Cardinality(Out(c)) + 1 /\ Cardinality(Out(c)) \in Nat
      BY <2>2, <2>4, OutIs, OneMore, Zenon
    <3>2. Len(t) \in Nat /\ Len(todo[c]) = Len(t) + 1 /\ Cardinality(Out(c)) + Len(todo[c]) <= await[c]
      BY <2>1 DEF Round, Goes
    <3>. QED  BY <2>1, <3>1, <3>2
  <2>6. /\ \A i, j \in 1 .. Len(t) : i < j => t[i][1] # t[j][1]
        /\ \A i \in 1 .. Len(t) : t[i][1] # todo[c][1][1]
        /\ \A i \in 1 .. Len(t) : \E j \in 1 .. Len(todo[c]) : t[i][1] = todo[c][j][1]
    <3>1. t \in Seq(Strms \X BOOLEAN) /\ Without(todo[c], t, 1)
      BY DEF Goes
    <3>2. Distinct(todo[c])
      BY <2>1 DEF Round, Distinct
    <3>3. Distinct(t) /\ Among(todo[c], t)
      BY <2>1, <3>1, <3>2, Shorter
    <3>. QED  BY <3>3 DEF Distinct, Among
  <2>7. \A i \in 1 .. Len(t) : t[i][1] \notin O
    <3>1. \A i \in 1 .. Len(t) : t[i][1] \notin Out(c)
      BY <2>1, <2>6 DEF Round
    <3>2. s = todo[c][1][1]
      BY DEF Goes
    <3>. QED  BY <2>4, <2>6, <3>1, <3>2
  <2>8. \A k \in Strms : sent'[c][k] \in {seen'[c][k], seen'[c][k] + 1}
    <3>1. sent'[c][s] = seen'[c][s] + 1
      BY <1>8, <2>2
    <3>2. \A k \in Strms : sent[c][k] \in {seen[c][k], seen[c][k] + 1}
      BY <2>1 DEF Round
    <3>. QED  BY <1>8, <2>2, <3>1, <3>2
  <2>9. v # "prompt"
    BY <2>1 DEF Goes
  <2>10. todo'[c] = t /\ await'[c] = await[c] /\ cpc'[c] = v
    BY DEF Goes
  <2>. QED  BY <2>3, <2>5, <2>6, <2>7, <2>8, <2>9, <2>10 DEF Round
<1>14. Right(c)'
  BY <1>11, <1>12, <1>13 DEF Right
<1>. QED  BY <1>9, <1>10, <1>14, OnlyOne DEF Goes

\* So a client may send, or be refused.
LEMMA SendKeeps ==
  ASSUME FlowInv, NEW c \in Clients, Send(c)
  PROVE  FlowInv'
<1>1. PICK s, t, v : Goes(c, s, t, v)
  BY SendGoes
<1>2. s = Head(todo[c])[1] /\ s \in Strms
  BY <1>1 DEF Goes
<1>3. CASE UNCHANGED <<up, sent>>
  BY <1>1, <1>3, RefusedKeeps
<1>4. CASE ~(UNCHANGED <<up, sent>>)
  <2>1. PICK m : m = [str |-> s, num |-> sent[c][s] + 1, word |-> Head(todo[c])[2]]
    OBVIOUS
  <2>2. /\ s < streams[c] /\ Buffered(up[c]) < Room
        /\ sent' = [sent EXCEPT ![c][s] = @ + 1] /\ up' = [up EXCEPT ![c][s] = Append(@, m)]
    BY <1>2, <1>4, <2>1 DEF Send
  <2>3. m \in Msgs /\ m.str = s /\ m.num = sent[c][s] + 1
    <3>1. Head(todo[c]) \in Strms \X BOOLEAN
      <4>1. FlowTypes /\ Right(c) /\ cpc[c] = "send"
        BY DEF FlowInv, Send
      <4>2. todo[c] \in Seq(Strms \X BOOLEAN) /\ todo[c] # <<>>
        BY <4>1, ClientHas DEF Right, Placed
      <4>. QED  BY <4>2, TailIs
    <3>2. Head(todo[c])[2] \in BOOLEAN
      BY <3>1
    <3>3. sent[c][s] \in Nat
      BY <1>2, ClientHas DEF FlowInv
    <3>. QED  BY <1>2, <2>1, <3>2, <3>3 DEF Msgs
  <2>. QED  BY <1>1, <2>2, <2>3, SentKeeps
<1>. QED  BY <1>3, <1>4

\* A client takes the first n items from a stream.
Took(c) ==
  /\ down' \in [Clients -> Queues] /\ seen' \in [Clients -> [Strms -> Nat]]
  /\ \A d \in Clients : d # c => down'[d] = down[d] /\ seen'[d] = seen[d]
  /\ Buffered(down[c])' <= Room
  /\ \A j \in Strms : j >= streams[c] => down'[c][j] = <<>>
  /\ spc # "dead" /\ ~Gone(c) => Chain(c)'

\* What it takes is of stream k, whose answers are on s, and no other answers change.
LEMMA TakeKeeps ==
  ASSUME FlowInv, NEW c \in Clients, NEW k \in Strms, NEW s \in Strms, s = Back(c, k), NEW n \in Nat,
         NEW t \in Seq(Msgs), down[c][s] # <<>>, Without(down[c][s], t, n), UNCHANGED <<program, up, sent, server>>,
         down' = [down EXCEPT ![c][s] = t], seen' = [seen EXCEPT ![c][k] = @ + n]
  PROVE  Took(c)
<1>1. FlowTypes /\ Right(c)
  BY DEF FlowInv
<1>2. PICK a \in Nat : a = seen[c][k]
  BY <1>1, ClientHas
<1>3. a + n \in Nat /\ seen' = [seen EXCEPT ![c][k] = a + n]
  BY <1>2
<1>4. /\ seen' \in [Clients -> [Strms -> Nat]] /\ seen'[c][k] = a + n
      /\ \A j \in Strms : j # k => seen'[c][j] = seen[c][j]
      /\ \A d \in Clients : d # c => seen'[d] = seen[d]
  <2>1. PICK x \in Nat : x = a + n
    BY <1>3
  <2>2. seen \in [Clients -> [Strms -> Nat]] /\ seen' = [seen EXCEPT ![c][k] = x]
    BY <1>1, <1>3, <2>1 DEF FlowTypes
  <2>. QED  BY <2>1, <2>2, OnePlace
<1>5. PICK e : e = down'[c]
  OBVIOUS
<1>6. /\ down' \in [Clients -> Queues] /\ e \in Queues /\ e[s] = t
      /\ \A j \in Strms : j # s => e[j] = down[c][j]
      /\ \A d \in Clients : d # c => down'[d] = down[d]
  <2>1. down \in [Clients -> [Strms -> Seq(Msgs)]]
    BY <1>1 DEF FlowTypes, Queues
  <2>. QED  BY <1>5, <2>1, OnePlace DEF Queues
<1>7. PICK d \in Queues : d = down[c]
  BY <1>1, ClientHas
<1>8. Without(d[s], e[s], n) /\ \A j \in Strms : j # s => e[j] = d[j]
  BY <1>6, <1>7
<1>9. Buffered(down[c])' <= Room
  <2>1. \A j \in Strms : Len(e[j]) <= Len(d[j])
    <3>1. Len(e[s]) \in Nat /\ Len(d[s]) = Len(e[s]) + n
      BY <1>6, <1>8, LenProperties DEF Without
    <3>2. \A j \in Strms : Len(d[j]) \in Nat
      BY LenProperties DEF Queues
    <3>. QED  BY <1>8, <3>1, <3>2
  <2>2. Buffered(e) <= Buffered(d)
    BY <1>6, <2>1, LessBuffered
  <2>3. Buffered(e) \in Nat /\ Buffered(d) \in Nat /\ Room \in Nat /\ Buffered(d) <= Room
    BY <1>1, <1>6, <1>7, InPlaces, StrmsAre DEF Right, Placed
  <2>4. Buffered(e) <= Room
    BY <2>2, <2>3
  <2>. QED  BY <1>5, <2>4 DEF Buffered
<1>10. \A j \in Strms : j >= streams[c] => down'[c][j] = <<>>
  BY <1>1, <1>5, <1>6 DEF Right, Placed
<1>11. ASSUME spc # "dead", ~Gone(c) PROVE Chain(c)'
  <2>1. Chain(c) /\ UNCHANGED <<up, sent>>
    BY <1>1, <1>11 DEF Right
  <2>2. \A j : Mine(c, j)' = Mine(c, j)
    BY DEF Mine, server
  <2>3. ASSUME NEW j \in Strms
        PROVE  \E r : /\ r = Back(c, j)
                      /\ Flows(down'[c], Mine(c, j)', up'[c][j], seen'[c][j], sent'[c][j], j, r)
    <3>1. PICK r : r = Back(c, j) /\ r \in Strms
      BY <1>1, BackOnce
    <3>2. PICK h \in Seq(Msgs), u \in Seq(Msgs), i \in Nat, b \in Nat :
            h = Mine(c, j) /\ u = up[c][j] /\ i = seen[c][j] /\ b = sent[c][j]
      BY <1>1, ClientHas
    <3>3. Flows(d, h, u, i, b, j, r)
      <4>1. UnderWay(c, j, r)
        BY <2>1, <3>1 DEF Chain
      <4>2. Flows(down[c], Mine(c, j), up[c][j], seen[c][j], sent[c][j], j, r)
        BY <4>1, UnderIs
      <4>. QED  BY <1>7, <3>2, <4>2
    <3>4. CASE j = k
      <4>1. r = s /\ i = a
        BY <1>2, <3>1, <3>2, <3>4
      <4>2. Flows(e, h, u, i + n, b, j, r)
        BY <1>6, <1>8, <3>1, <3>3, <4>1, FlowsIn
      <4>3. seen'[c][j] = i + n /\ up'[c][j] = u /\ sent'[c][j] = b /\ Mine(c, j)' = h
        BY <1>4, <2>1, <2>2, <3>2, <3>4, <4>1
      <4>4. Flows(down'[c], Mine(c, j)', up'[c][j], seen'[c][j], sent'[c][j], j, r)
        BY <1>5, <4>2, <4>3
      <4>. QED  BY <3>1, <4>4
    <3>5. CASE j # k
      <4>1. r # s
        BY <1>1, <3>1, <3>5, BackOnce
      <4>2. Flows(e, h, u, i, b, j, r)
        BY <1>6, <1>8, <3>1, <3>3, <4>1, FlowsOther
      <4>3. seen'[c][j] = i /\ up'[c][j] = u /\ sent'[c][j] = b /\ Mine(c, j)' = h
        BY <1>4, <2>1, <2>2, <3>2, <3>5
      <4>4. Flows(down'[c], Mine(c, j)', up'[c][j], seen'[c][j], sent'[c][j], j, r)
        BY <1>5, <4>2, <4>3
      <4>. QED  BY <3>1, <4>4
    <3>. QED  BY <3>4, <3>5
  <2>. QED  BY <2>3, ChainNow
<1>. QED  BY <1>4, <1>6, <1>9, <1>10, <1>11 DEF Took

\* A client of ch10 receives the first answer of some stream.
LEMMA ReceiveKeeps ==
  ASSUME FlowInv, NEW c \in Clients, Receive(c)
  PROVE  FlowInv'
<1>. USE DEF counts
<1>1. FlowTypes /\ Right(c)
  BY DEF FlowInv
<1>2. cpc[c] = "recv" /\ await[c] > 0 /\ ~Gone(c) /\ mode[c] # "select" /\ mode[c] # "none"
  BY <1>1 DEF Receive, Gone, Right, Placed
<1>3. spc # "dead" /\ Chain(c) /\ Round(c)
  <2>1. ~Tcp
    BY <1>1, <1>2, FlowAssumption DEF FlowTypes, Tcp
  <2>2. spc # "dead"
    BY <1>1, <2>1 DEF FlowTypes
  <2>. QED  BY <1>1, <1>2, <2>2 DEF Right
<1>4. PICK s \in Strms : /\ down[c][s] # <<>>
                         /\ seen' = [seen EXCEPT ![c][Head(down[c][s]).str] = @ + 1]
                         /\ down' = [down EXCEPT ![c][s] = Tail(@)]
  BY DEF Receive
<1>5. PICK q, t, x : q \in Seq(Msgs) /\ q = down[c][s] /\ t = Tail(q) /\ x = Head(q)
  BY <1>1, ClientHas
<1>6. t \in Seq(Msgs) /\ x \in Msgs /\ x = q[1] /\ Without(q, t, 1) /\ Len(q) \in Nat /\ Len(q) > 0
  BY <1>4, <1>5, TailIs
<1>7. PICK k \in Strms : k = x.str
  BY <1>6 DEF Msgs
<1>8. PICK r : r = Back(c, k) /\ r \in Strms
  BY <1>1, BackOnce
<1>9. Flows(down[c], Mine(c, k), up[c][k], seen[c][k], sent[c][k], k, r)
  <2>1. UnderWay(c, k, r)
    BY <1>3, <1>8 DEF Chain
  <2>. QED  BY <2>1, UnderIs
<1>10. s = r
  <2>1. 1 \in 1 .. Len(down[c][s]) /\ down[c][s][1].str = k
    BY <1>5, <1>6, <1>7
  <2>. QED  BY <1>9, <2>1 DEF Flows
<1>11. UNCHANGED <<program, todo, up, sent, server>>
  BY DEF Receive
<1>12. Took(c)
  <2>1. Without(down[c][s], t, 1) /\ s = Back(c, k) /\ down[c][s] # <<>>
    BY <1>4, <1>5, <1>6, <1>8, <1>10
  <2>2. down' = [down EXCEPT ![c][s] = t] /\ seen' = [seen EXCEPT ![c][k] = @ + 1]
    BY <1>4, <1>5, <1>7
  <2>. QED  BY <1>6, <1>11, <2>1, <2>2, TakeKeeps
<1>13. PICK n \in Nat, m \in Nat : n = await[c] /\ n = m + 1 /\ n \in 0 .. Asked
  <2>1. await[c] \in 0 .. Asked /\ Asked \in Nat
    BY <1>1, ClientHas, StrmsAre
  <2>2. await[c] \in Nat /\ await[c] - 1 \in Nat
    BY <1>2, <2>1
  <2>. QED  BY <2>1, <2>2
<1>14. PICK v : v = (IF n = 1 THEN "prompt" ELSE "recv")
  OBVIOUS
<1>15. /\ await' = [await EXCEPT ![c] = m] /\ cpc' = [cpc EXCEPT ![c] = v]
  <2>1. await[c] - 1 = m /\ (await[c] = 1 <=> n = 1)
    BY <1>13
  <2>2. await' = [await EXCEPT ![c] = await[c] - 1]
    BY DEF Receive
  <2>3. cpc' = [cpc EXCEPT ![c] = IF await[c] = 1 THEN "prompt" ELSE "recv"]
    BY DEF Receive
  <2>. QED  BY <1>14, <2>1, <2>2, <2>3
<1>16. /\ await' \in [Clients -> 0 .. Asked] /\ await'[c] = m
       /\ \A d \in Clients : d # c => await'[d] = await[d]
  <2>1. m \in 0 .. Asked
    BY <1>13, StrmsAre
  <2>. QED  BY <1>1, <1>15, <2>1 DEF FlowTypes
<1>17. /\ cpc' \in [Clients -> {"prompt", "send", "recv", "sock", "done"}] /\ cpc'[c] = v
       /\ \A d \in Clients : d # c => cpc'[d] = cpc[d]
  BY <1>1, <1>14, <1>15 DEF FlowTypes
<1>18. \A d \in Clients : d # c => Stays(d)
  BY <1>11, <1>12, <1>16, <1>17 DEF Stays, Took
<1>19. FlowTypes'
  BY <1>1, <1>11, <1>12, <1>16, <1>17 DEF FlowTypes, program, server, Tcp, IsTcp, Took
<1>20. Placed(c)'
  <2>1. Buffered(up[c])' <= Room
    BY <1>1, <1>11 DEF Right, Placed, Buffered
  <2>. QED  BY <1>1, <1>2, <1>11, <1>12, <1>14, <1>17, <2>1 DEF Right, Placed, program, Took
<1>21. Round(c)'
  <2>1. PICK a \in Nat, b \in Nat : a = seen[c][k] /\ b = sent[c][k]
    BY <1>1, ClientHas
  <2>2. b = a + 1
    <3>1. PICK h \in Seq(Msgs), u \in Seq(Msgs) : h = Mine(c, k) /\ u = up[c][k]
      BY <1>1, ClientHas
    <3>2. b = a + Len(q) + Len(h) + Len(u)
      <4>1. PICK d : d = down[c] /\ d[r] = q
        BY <1>5, <1>10
      <4>2. Flows(d, h, u, a, b, k, r)
        BY <1>9, <2>1, <3>1, <4>1
      <4>3. b = a + Len(d[r]) + Len(h) + Len(u)
        BY <4>2 DEF Flows
      <4>. QED  BY <4>1, <4>3
    <3>3. PICK i \in Nat, j \in Nat, l \in Nat : i = Len(q) /\ j = Len(h) /\ l = Len(u) /\ i > 0
      BY <1>6, LenProperties
    <3>4. b = a + i + j + l
      BY <3>2, <3>3
    <3>5. b = a \/ b = a + 1
      BY <1>3, <2>1 DEF Round
    <3>. QED  BY <3>3, <3>4, <3>5
  <2>3. seen'[c][k] = a + 1 /\ sent'[c][k] = b /\ \A j \in Strms : j # k => seen'[c][j] = seen[c][j]
    <3>1. seen' = [seen EXCEPT ![c][k] = a + 1] /\ a + 1 \in Nat
      BY <1>4, <1>5, <1>7, <2>1
    <3>. QED  BY <1>1, <1>11, <2>1, <3>1, OnePlace DEF FlowTypes
  <2>4. PICK O : O = Out(c)'
    OBVIOUS
  <2>5. O = Out(c) \ {k} /\ k \in Out(c)
    <3>1. ASSUME NEW j \in Strms PROVE sent'[c][j] # seen'[c][j] <=> (j \in Out(c) /\ j # k)
      <4>1. CASE j = k
        BY <2>2, <2>3, <4>1
      <4>2. CASE j # k
        BY <1>11, <2>3, <4>2 DEF Out
      <4>. QED  BY <4>1, <4>2
    <3>2. O = {j \in Strms : sent'[c][j] # seen'[c][j]} /\ Out(c) \subseteq Strms
      BY <2>4 DEF Out
    <3>3. sent[c][k] # seen[c][k]
      BY <2>1, <2>2
    <3>4. k \in Out(c)
      BY <3>3 DEF Out
    <3>. QED  BY <3>1, <3>2, <3>4
  <2>6. Cardinality(O) + Len(todo[c]) <= m
    <3>1. Cardinality(Out(c)) = Cardinality(O) + 1 /\ Cardinality(Out(c)) \in Nat
      BY <2>5, OutIs, OneLess, Zenon
    <3>2. Cardinality(O) \in Nat
      BY <2>4, <2>5, OutIs, FS_Subset, FS_CardinalityType
    <3>3. Len(todo[c]) \in Nat
      BY <1>1, ClientHas, LenProperties
    <3>4. Cardinality(Out(c)) + Len(todo[c]) <= n
      BY <1>3, <1>13 DEF Round
    <3>. QED  BY <1>13, <3>1, <3>2, <3>3, <3>4
  <2>7. \A i \in 1 .. Len(todo[c]) : todo[c][i][1] \notin O
    BY <1>3, <2>5 DEF Round
  <2>8. \A j \in Strms : sent'[c][j] \in {seen'[c][j], seen'[c][j] + 1}
    BY <1>3, <1>11, <2>2, <2>3 DEF Round
  <2>9. v = "prompt" => m = 0
    BY <1>13, <1>14
  <2>10. todo' = todo /\ \A i, j \in 1 .. Len(todo[c]) : i < j => todo[c][i][1] # todo[c][j][1]
    BY <1>3, <1>11 DEF Round
  <2>. QED  BY <1>16, <1>17, <2>4, <2>6, <2>7, <2>8, <2>9, <2>10 DEF Round
<1>22. Right(c)'
  BY <1>2, <1>3, <1>12, <1>20, <1>21 DEF Right, Took
<1>. QED  BY <1>2, <1>11, <1>18, <1>19, <1>22, OnlyOne

\* The client of ch6 reads its socket.
LEMMA SockKeeps ==
  ASSUME FlowInv, NEW c \in Clients, Sock(c)
  PROVE  FlowInv'
<1>. USE DEF counts
<1>1. FlowTypes /\ Right(c)
  BY DEF FlowInv
<1>2. cpc[c] = "sock" /\ mode[c] = "select" /\ ~Gone(c) /\ down[c][0] # <<>> /\ 0 \in Strms
  BY <1>1, StrmsAre DEF Sock, Gone, Right, Placed
<1>3. 0 = Back(c, 0)
  <2>1. Tcp
    BY <1>2 DEF Tcp, IsTcp
  <2>. QED  BY <1>1, <2>1 DEF FlowTypes, Back
<1>4. PICK q, n : q \in Seq(Msgs) /\ q = down[c][0] /\ n = Taken(c)
  BY <1>1, <1>2, ClientHas
<1>5. n \in 1 .. Len(q) /\ n \in Nat
  <2>1. Len(q) \in Nat /\ Len(q) # 0 /\ Chunk \in Nat /\ Chunk > 0
    BY <1>2, <1>4, EmptySeq, LenProperties, StrmsAre
  <2>2. PICK m \in Nat : m = Len(q)
    BY <2>1
  <2>3. n = Min({Chunk, m})
    BY <1>4, <2>2 DEF Taken
  <2>4. n = IF Chunk <= m THEN Chunk ELSE m
    BY <2>1, <2>3, MinIs
  <2>. QED  BY <2>1, <2>2, <2>4
<1>6. PICK t, h : t = SubSeq(q, n + 1, Len(q)) /\ h = SubSeq(q, 1, n)
  OBVIOUS
<1>7. t \in Seq(Msgs) /\ Without(q, t, n)
  BY <1>4, <1>5, <1>6, SubSeqIs
<1>8. UNCHANGED <<program, todo, await, up, sent, server>> /\ cpc' = [cpc EXCEPT ![c] = "prompt"]
  BY DEF Sock
<1>9. Took(c)
  <2>1. down' = [down EXCEPT ![c][0] = t]
    BY <1>4, <1>6 DEF Sock
  <2>2. seen' = [seen EXCEPT ![c][0] = @ + n]
    BY <1>4 DEF Sock
  <2>3. Without(down[c][0], t, n)
    BY <1>4, <1>7
  <2>. QED  BY <1>2, <1>3, <1>5, <1>7, <1>8, <2>1, <2>2, <2>3, TakeKeeps
<1>10. /\ cpc' \in [Clients -> {"prompt", "send", "recv", "sock", "done"}] /\ cpc'[c] = "prompt"
       /\ \A d \in Clients : d # c => cpc'[d] = cpc[d]
  BY <1>1, <1>8 DEF FlowTypes
<1>11. \A d \in Clients : d # c => Stays(d)
  BY <1>8, <1>9, <1>10 DEF Stays, Took
<1>12. FlowTypes'
  BY <1>1, <1>8, <1>9, <1>10 DEF FlowTypes, program, server, Tcp, IsTcp, Took
<1>13. Placed(c)'
  <2>1. Buffered(up[c])' <= Room
    BY <1>1, <1>8 DEF Right, Placed, Buffered
  <2>. QED  BY <1>1, <1>2, <1>8, <1>9, <1>10, <2>1 DEF Right, Placed, program, Took
<1>14. Right(c)'
  BY <1>2, <1>8, <1>9, <1>13 DEF Right, Took, program, server
<1>. QED  BY <1>2, <1>8, <1>11, <1>12, <1>14, OnlyOne

-----------------------------------------------------------------------------
(* The servers.                                                            *)

\* A server takes the first n items of a stream.
LEMMA ServerTakes ==
  ASSUME FlowInv, NEW c \in Clients, NEW s \in Strms, NEW n \in Nat, n > 0, NEW h \in Seq(Msgs),
         NEW t \in Seq(Msgs), First(up[c][s], h, n), Without(up[c][s], t, n),
         spc = "recv", spc' = "send", held' = h, from' = c, up' = [up EXCEPT ![c][s] = t],
         dest' \in Strms, s < streams[c] /\ ~Gone(c) => dest' = Back(c, s),
         UNCHANGED <<program, reader, down, counts>>
  PROVE  FlowInv'
<1>1. FlowTypes /\ Right(c) /\ \A d \in Clients : Right(d)
  BY DEF FlowInv
<1>2. UNCHANGED <<cpc, todo, await, down, sent, seen>>
  BY DEF reader, counts
<1>3. PICK p : p = up'[c]
  OBVIOUS
<1>4. /\ up' \in [Clients -> Queues] /\ p \in Queues /\ p[s] = t
      /\ \A j \in Strms : j # s => p[j] = up[c][j]
      /\ \A d \in Clients : d # c => up'[d] = up[d]
  <2>1. up \in [Clients -> [Strms -> Seq(Msgs)]]
    BY <1>1 DEF FlowTypes, Queues
  <2>. QED  BY <1>3, <2>1, OnePlace DEF Queues
<1>5. PICK u \in Queues : u = up[c]
  BY <1>1, ClientHas
<1>6. /\ First(u[s], h, n) /\ Without(u[s], t, n) /\ Len(h) = n /\ n <= Len(u[s])
      /\ h[1] = u[s][1] /\ h # <<>> /\ u[s] # <<>> /\ 1 \in 1 .. Len(u[s])
  <2>1. First(u[s], h, n) /\ Without(u[s], t, n)
    BY <1>5
  <2>2. Len(h) = n /\ n <= Len(u[s]) /\ h[1] = u[s][1]
    BY <2>1 DEF First
  <2>3. u[s] \in Seq(Msgs)
    BY DEF Queues
  <2>4. Len(u[s]) \in Nat
    BY <2>3, LenProperties
  <2>5. h # <<>> /\ u[s] # <<>>
    BY <2>2, <2>3, <2>4, EmptySeq
  <2>. QED  BY <2>1, <2>2, <2>4, <2>5
<1>7. FlowTypes'
  BY <1>1, <1>2, <1>4, <1>6 DEF FlowTypes, program, Tcp, IsTcp
<1>8. s < streams[c]
  <2>1. s \in Nat /\ streams[c] \in Nat
    BY <1>1, StrmsAre, ClientHas
  <2>2. ~(s >= streams[c])
    BY <1>1, <1>5, <1>6 DEF Right, Placed
  <2>. QED  BY <2>1, <2>2
<1>9. ASSUME ~Gone(c) PROVE Chain(c) /\ h[1].str = s
  <2>1. Chain(c)
    BY <1>1, <1>9 DEF Right
  <2>2. Follow(up[c][s], s, seen[c][s] + Len(down[c][Back(c, s)]) + Len(Mine(c, s)))
    BY <2>1 DEF Chain, UnderWay
  <2>3. u[s][1].str = s
    BY <1>5, <1>6, <2>2 DEF Follow
  <2>. QED  BY <1>6, <2>1, <2>3
<1>10. \A d, j : Mine(d, j) = <<>> /\ (d # c => Mine(d, j)' = <<>>)
  BY DEF Mine
<1>11. Placed(c)'
  <2>1. \A j \in Strms : Len(p[j]) <= Len(u[j])
    <3>1. Len(p[s]) \in Nat /\ Len(u[s]) = Len(p[s]) + n
      BY <1>4, <1>6, LenProperties DEF Without
    <3>2. \A j \in Strms : Len(u[j]) \in Nat
      BY LenProperties DEF Queues
    <3>. QED  BY <1>4, <1>5, <3>1, <3>2
  <2>2. Buffered(p) <= Buffered(u)
    BY <1>4, <2>1, LessBuffered
  <2>3. Buffered(p) \in Nat /\ Buffered(u) \in Nat /\ Room \in Nat /\ Buffered(u) <= Room
    BY <1>1, <1>4, <1>5, InPlaces, StrmsAre DEF Right, Placed
  <2>4. Buffered(p) <= Room
    BY <2>2, <2>3
  <2>5. Buffered(up[c])' <= Room
    BY <1>3, <2>4 DEF Buffered
  <2>6. Buffered(down[c])' <= Room
    BY <1>1, <1>2 DEF Buffered, Right, Placed
  <2>7. \A j \in Strms : j >= streams[c] => j # s
    BY <1>8, StrmsAre, <1>1, ClientHas
  <2>8. \A j \in Strms : j >= streams[c] => up'[c][j] = <<>>
    BY <1>1, <1>3, <1>4, <2>7 DEF Right, Placed
  <2>. QED  BY <1>1, <1>2, <2>5, <2>6, <2>8 DEF Right, Placed, program
<1>12. ASSUME ~Gone(c) PROVE Chain(c)'
  <2>1. ASSUME NEW j \in Strms
        PROVE  \E r : /\ r = Back(c, j)
                      /\ Flows(down'[c], Mine(c, j)', up'[c][j], seen'[c][j], sent'[c][j], j, r)
    <3>1. PICK r : r = Back(c, j) /\ r \in Strms
      BY <1>1, BackOnce
    <3>2. PICK d \in Queues, e \in Seq(Msgs), a \in Nat, b \in Nat :
            d = down[c] /\ e = Mine(c, j) /\ a = seen[c][j] /\ b = sent[c][j]
      BY <1>1, ClientHas
    <3>3. Flows(d, e, u[j], a, b, j, r)
      <4>1. UnderWay(c, j, r)
        BY <1>9, <1>12, <3>1 DEF Chain
      <4>2. Flows(down[c], Mine(c, j), up[c][j], seen[c][j], sent[c][j], j, r)
        BY <4>1, UnderIs
      <4>. QED  BY <1>5, <3>2, <4>2
    <3>4. e = <<>> /\ Len(e) = 0
      BY <1>10, <3>2, EmptySeq
    <3>5. down'[c] = d /\ seen'[c][j] = a /\ sent'[c][j] = b
      BY <1>2, <3>2
    <3>6. CASE j = s
      <4>1. PICK w \in Seq(Msgs) : w = u[s]
        BY DEF Queues
      <4>2. Flows(d, e, w, a, b, s, r) /\ First(w, h, n) /\ Without(w, t, n)
        BY <1>6, <3>3, <3>6, <4>1
      <4>3. Flows(d, h, t, a, b, s, r)
        BY <3>1, <3>4, <4>2, FlowsTaken
      <4>4. Mine(c, j)' = h /\ up'[c][j] = t
        BY <1>3, <1>4, <1>9, <1>12, <3>6 DEF Mine
      <4>5. Flows(down'[c], Mine(c, j)', up'[c][j], seen'[c][j], sent'[c][j], j, r)
        BY <3>5, <3>6, <4>3, <4>4
      <4>. QED  BY <3>1, <4>5
    <3>7. CASE j # s
      <4>1. Mine(c, j)' = e /\ up'[c][j] = u[j]
        BY <1>3, <1>4, <1>5, <1>9, <1>12, <3>4, <3>7 DEF Mine
      <4>2. Flows(down'[c], Mine(c, j)', up'[c][j], seen'[c][j], sent'[c][j], j, r)
        BY <3>3, <3>5, <4>1
      <4>. QED  BY <3>1, <4>2
    <3>. QED  BY <3>6, <3>7
  <2>. QED  BY <2>1, ChainNow
<1>13. Right(c)'
  <2>1. ~Gone(c)' => ~Gone(c)
    BY <1>2 DEF Gone
  <2>2. ~Gone(c)' /\ mode'[c] # "select" => Round(c)'
    BY <1>1, <1>2, RoundStays DEF Right, Gone, program
  <2>. QED  BY <1>11, <1>12, <2>1, <2>2 DEF Right
<1>14. ASSUME NEW d \in Clients, d # c PROVE Right(d)'
  <2>1. Stays(d) /\ spc # "dead" /\ \A j \in Strms : Mine(d, j)' = Mine(d, j)
    BY <1>2, <1>4, <1>10, <1>14 DEF Stays
  <2>. QED  BY <1>1, <2>1, RightStays
<1>15. spc' = "send" /\ ~Gone(from)' => Answering'
  <2>1. Gone(from)' <=> Gone(c)
    BY <1>2 DEF Gone
  <2>2. ~Gone(c) => Back(c, s)' = dest' /\ s < streams'[c]
    BY <1>8 DEF Back, program
  <2>. QED  BY <1>9, <2>1, <2>2 DEF Answering, Back
<1>. QED  BY <1>7, <1>13, <1>14, <1>15 DEF FlowInv

\* ch10's server takes one message.
LEMMA MessageKeeps ==
  ASSUME FlowInv, TakeMessage
  PROVE  FlowInv'
<1>1. FlowTypes
  BY DEF FlowInv
<1>2. PICK c \in Clients, s \in Strms :
        /\ up[c][s] # <<>>
        /\ held' = <<Head(up[c][s])>> /\ from' = c /\ dest' = Reply(c, s)
        /\ up' = [up EXCEPT ![c][s] = Tail(@)]
  BY DEF TakeMessage
<1>3. PICK q, t, x : q \in Seq(Msgs) /\ q = up[c][s] /\ t = Tail(q) /\ x = Head(q)
  BY <1>1, ClientHas
<1>4. t \in Seq(Msgs) /\ x \in Msgs /\ x = q[1] /\ Without(q, t, 1) /\ Len(q) \in Nat /\ Len(q) > 0
  BY <1>2, <1>3, TailIs
<1>5. PICK h : h = <<x>>
  OBVIOUS
<1>6. h \in Seq(Msgs) /\ Len(h) = 1 /\ h[1] = x
  BY <1>4, <1>5
<1>7. First(q, h, 1)
  BY <1>4, <1>6 DEF First
<1>8. PICK n \in Nat, i \in Nat : n = streams[c] /\ n > 0 /\ i = s /\ \A k \in Nat : k < n => k \in Strms
  BY <1>1, ClientHas, StrmsAre
<1>9. dest' \in Strms
  <2>1. dest' = IF ~increment THEN s ELSE IF i + 1 >= NoStrms(c) THEN 0 ELSE i + 1
    BY <1>2, <1>8 DEF Reply
  <2>2. NoStrms(c) = 0 \/ NoStrms(c) = n
    BY <1>8 DEF NoStrms
  <2>3. i + 1 \in Nat /\ (i + 1 >= 0) /\ (~(i + 1 >= n) => i + 1 < n)
    BY <1>8
  <2>. QED  BY <1>8, <2>1, <2>2, <2>3, StrmsAre
<1>10. s < streams[c] /\ ~Gone(c) => dest' = Back(c, s)
  <2>1. ASSUME i < n, ~Gone(c) PROVE dest' = Back(c, s)
    <3>1. dest' = IF ~increment THEN i ELSE IF i + 1 >= n THEN 0 ELSE i + 1
      BY <1>2, <1>8, <2>1 DEF Reply, NoStrms
    <3>2. Back(c, s) = IF i >= n \/ ~increment THEN i ELSE IF i + 1 = n THEN 0 ELSE i + 1
      BY <1>8 DEF Back
    <3>3. ~(i >= n) /\ (i + 1 >= n <=> i + 1 = n)
      BY <1>8, <2>1
    <3>. QED  BY <3>1, <3>2, <3>3
  <2>. QED  BY <1>8, <2>1
<1>11. First(up[c][s], h, 1) /\ Without(up[c][s], t, 1) /\ held' = h /\ up' = [up EXCEPT ![c][s] = t]
  BY <1>2, <1>3, <1>4, <1>5, <1>7
<1>12. spc = "recv" /\ spc' = "send" /\ UNCHANGED <<program, reader, down, counts>> /\ from' = c
  BY <1>2 DEF TakeMessage
<1>13. PICK one \in Nat : one = 1 /\ one > 0
  OBVIOUS
<1>14. First(up[c][s], h, one) /\ Without(up[c][s], t, one)
  BY <1>11, <1>13
<1>. QED  BY <1>4, <1>6, <1>9, <1>10, <1>11, <1>12, <1>13, <1>14, ServerTakes

\* A loop of ch6 takes what read() returns.
LEMMA PiecesKeeps ==
  ASSUME FlowInv, TakePieces
  PROVE  FlowInv'
<1>1. FlowTypes /\ 0 \in Strms
  BY StrmsAre DEF FlowInv
<1>2. PICK c, n :
        /\ c \in Clients /\ n = Min({Chunk, Len(up[c][0])}) /\ n > 0
        /\ held' = SubSeq(up[c][0], 1, n) /\ from' = c /\ dest' = 0
        /\ up' = [up EXCEPT ![c][0] = SubSeq(@, n + 1, Len(@))]
  BY DEF TakePieces
<1>3. PICK q, t, h : q \in Seq(Msgs) /\ q = up[c][0] /\ t = SubSeq(q, n + 1, Len(q)) /\ h = SubSeq(q, 1, n)
  BY <1>1, <1>2, ClientHas
<1>4. n \in 1 .. Len(q) /\ n \in Nat
  <2>1. PICK m \in Nat : m = Len(q)
    BY <1>3, LenProperties
  <2>2. n = Min({Chunk, m}) /\ Chunk \in Nat
    BY <1>2, <1>3, <2>1, StrmsAre
  <2>3. n = IF Chunk <= m THEN Chunk ELSE m
    BY <2>2, MinIs
  <2>. QED  BY <1>2, <2>1, <2>2, <2>3
<1>5. h \in Seq(Msgs) /\ t \in Seq(Msgs) /\ First(q, h, n) /\ Without(q, t, n)
  BY <1>3, <1>4, SubSeqIs
<1>6. First(up[c][0], h, n) /\ Without(up[c][0], t, n) /\ held' = h /\ up' = [up EXCEPT ![c][0] = t]
  BY <1>2, <1>3, <1>5
<1>7. 0 = Back(c, 0)
  BY <1>1 DEF FlowTypes, Back, TakePieces
<1>8. spc = "recv" /\ spc' = "send" /\ UNCHANGED <<program, reader, down, counts>>
  BY DEF TakePieces
<1>. QED  BY <1>1, <1>2, <1>4, <1>5, <1>6, <1>7, <1>8, ServerTakes

\* A server answers: the item goes to the stream its own answers are on.
LEMMA PutKeeps ==
  ASSUME FlowInv, Put
  PROVE  FlowInv'
<1>1. FlowTypes /\ (\A d \in Clients : Right(d)) /\ held \in Seq(Msgs)
  BY DEF FlowInv, FlowTypes
<1>2. PICK c \in Clients, s \in Strms, h \in Seq(Msgs) : c = from /\ s = dest /\ h = held
  BY <1>1 DEF FlowTypes, Put
<1>3. ~Gone(c) /\ s < streams[c] /\ Buffered(down[c]) < Room /\ spc = "send" /\ h # <<>>
  BY <1>1, <1>2 DEF Put, FlowTypes
<1>4. PICK g, x : g = Tail(h) /\ x = Head(h)
  OBVIOUS
<1>5. /\ g \in Seq(Msgs) /\ x \in Msgs /\ x = h[1] /\ Without(h, g, 1) /\ Len(h) \in Nat
      /\ Len(g) \in Nat /\ Len(h) = Len(g) + 1
  BY <1>3, <1>4, TailIs
<1>6. PICK k \in Strms : k = x.str
  BY <1>5 DEF Msgs
<1>7. s = Back(c, k) /\ k < streams[c]
  BY <1>2, <1>3, <1>5, <1>6 DEF FlowInv, Answering
<1>8. Chain(c) /\ Right(c)
  BY <1>1, <1>3 DEF Right
<1>9. UNCHANGED <<program, from, dest, up, cpc, todo, await, sent, seen>> /\ held' = g
  BY <1>2, <1>4 DEF Put, reader, counts
<1>10. spc' \in {"recv", "send"} /\ (spc' = "send" <=> g # <<>>)
  <2>1. Len(h) = 1 <=> g = <<>>
    BY <1>5, EmptySeq
  <2>. QED  BY <1>2, <2>1 DEF Put
<1>11. PICK d, q, e : d \in Queues /\ q \in Seq(Msgs) /\ d = down[c] /\ q = d[s] /\ e = down'[c]
  BY <1>1, ClientHas
<1>12. PICK w : w = Append(q, x)
  OBVIOUS
<1>13. w \in Seq(Msgs) /\ With(q, x, w) /\ Len(w) = Len(q) + 1
  BY <1>5, <1>11, <1>12, AppendIs DEF With
<1>14. /\ down' \in [Clients -> Queues] /\ e \in Queues /\ e[s] = w
       /\ \A j \in Strms : j # s => e[j] = d[j]
       /\ \A i \in Clients : i # c => down'[i] = down[i]
  <2>1. down' = [down EXCEPT ![c][s] = w]
    BY <1>2, <1>4, <1>11, <1>12 DEF Put
  <2>2. down \in [Clients -> [Strms -> Seq(Msgs)]]
    BY <1>1 DEF FlowTypes, Queues
  <2>. QED  BY <1>11, <1>13, <2>1, <2>2, OnePlace DEF Queues
<1>15. FlowTypes'
  <2>1. held' \in Seq(Msgs) /\ (spc' = "send" <=> held' # <<>>) /\ spc' \in {"recv", "send", "dead"}
    BY <1>5, <1>9, <1>10
  <2>2. (spc' = "dead" => Tcp') /\ (spc' = "send" => from' \in Clients)
    BY <1>2, <1>9, <1>10
  <2>. QED  BY <1>1, <1>9, <1>14, <2>1, <2>2 DEF FlowTypes, program, Tcp, IsTcp
<1>16. Placed(c)'
  <2>1. Buffered(e) <= Room
    <3>1. Buffered(e) = Buffered(d) + 1
      BY <1>11, <1>13, <1>14, MoreBuffered
    <3>2. Buffered(d) \in Nat /\ Room \in Nat /\ Buffered(d) < Room
      BY <1>3, <1>11, InPlaces, StrmsAre
    <3>. QED  BY <3>1, <3>2
  <2>2. Buffered(down[c])' <= Room
    BY <1>11, <2>1 DEF Buffered
  <2>3. Buffered(up[c])' <= Room
    BY <1>8, <1>9 DEF Buffered, Right, Placed
  <2>4. \A j \in Strms : j >= streams[c] => j # s
    BY <1>1, <1>3, StrmsAre, ClientHas
  <2>5. \A j \in Strms : j >= streams[c] => down'[c][j] = <<>>
    BY <1>8, <1>11, <1>14, <2>4 DEF Right, Placed
  <2>. QED  BY <1>8, <1>9, <2>2, <2>3, <2>5 DEF Right, Placed, program
<1>17. g # <<>> => g[1].str = k
  <2>1. ASSUME g # <<>> PROVE g[1].str = k
    <3>1. Len(g) > 0
      BY <1>5, <2>1, EmptySeq
    <3>2. 1 \in 1 .. Len(g) /\ 2 \in 1 .. Len(h)
      BY <1>5, <3>1
    <3>3. g[1] = h[2]
      BY <1>5, <3>2 DEF Without
    <3>4. Mine(c, k) = h
      BY <1>2, <1>3, <1>5, <1>6 DEF Mine
    <3>5. Follow(Mine(c, k), k, seen[c][k] + Len(down[c][Back(c, k)]))
      BY <1>8 DEF Chain, UnderWay
    <3>6. h[2].str = k
      BY <3>2, <3>4, <3>5 DEF Follow
    <3>. QED  BY <3>3, <3>6
  <2>. QED  BY <2>1
<1>18. Chain(c)'
  <2>1. ASSUME NEW j \in Strms
        PROVE  \E r : /\ r = Back(c, j)
                      /\ Flows(down'[c], Mine(c, j)', up'[c][j], seen'[c][j], sent'[c][j], j, r)
    <3>1. PICK r : r = Back(c, j) /\ r \in Strms
      BY <1>1, BackOnce
    <3>2. PICK y \in Seq(Msgs), u \in Seq(Msgs), a \in Nat, b \in Nat :
            y = Mine(c, j) /\ u = up[c][j] /\ a = seen[c][j] /\ b = sent[c][j]
      BY <1>1, ClientHas
    <3>3. Flows(d, y, u, a, b, j, r)
      <4>1. UnderWay(c, j, r)
        BY <1>8, <3>1 DEF Chain
      <4>2. Flows(down[c], Mine(c, j), up[c][j], seen[c][j], sent[c][j], j, r)
        BY <4>1, UnderIs
      <4>. QED  BY <1>11, <3>2, <4>2
    <3>4. down'[c] = e /\ seen'[c][j] = a /\ sent'[c][j] = b /\ up'[c][j] = u
      BY <1>9, <1>11, <3>2
    <3>5. CASE j = k
      <4>1. y = h /\ r = s
        BY <1>2, <1>3, <1>5, <1>6, <1>7, <3>1, <3>2, <3>5 DEF Mine
      <4>2. With(d[s], h[1], e[s])
        BY <1>5, <1>11, <1>13, <1>14
      <4>3. Flows(d, h, u, a, b, j, s)
        BY <3>3, <4>1
      <4>4. Flows(e, g, u, a, b, j, s)
        BY <1>3, <1>5, <1>11, <1>14, <4>2, <4>3, FlowsPut
      <4>5. Mine(c, j)' = g
        BY <1>2, <1>9, <1>10, <1>17, <3>5 DEF Mine
      <4>6. Flows(down'[c], Mine(c, j)', up'[c][j], seen'[c][j], sent'[c][j], j, r)
        BY <3>4, <4>1, <4>4, <4>5
      <4>. QED  BY <3>1, <4>6
    <3>6. CASE j # k
      <4>1. y = <<>> /\ r # s
        BY <1>1, <1>2, <1>5, <1>6, <1>7, <3>1, <3>2, <3>6, BackOnce DEF Mine
      <4>2. With(d[s], x, e[s]) /\ x.str # j
        BY <1>6, <1>11, <1>13, <1>14, <3>6
      <4>3. Flows(e, y, u, a, b, j, r)
        BY <1>11, <1>14, <3>1, <3>3, <4>1, <4>2, FlowsOther
      <4>4. Mine(c, j)' = <<>>
        BY <1>9, <1>10, <1>17, <3>6 DEF Mine
      <4>5. Flows(down'[c], Mine(c, j)', up'[c][j], seen'[c][j], sent'[c][j], j, r)
        BY <3>4, <4>1, <4>3, <4>4
      <4>. QED  BY <3>1, <4>5
    <3>. QED  BY <3>5, <3>6
  <2>. QED  BY <1>9, <2>1, ChainNow
<1>19. Right(c)'
  <2>1. ~Gone(c)' /\ mode'[c] # "select" => Round(c)'
    BY <1>8, <1>9, RoundStays DEF Right, Gone, program
  <2>. QED  BY <1>16, <1>18, <2>1 DEF Right
<1>20. ASSUME NEW i \in Clients, i # c PROVE Right(i)'
  <2>1. Stays(i) /\ spc # "dead"
    BY <1>3, <1>9, <1>14, <1>20 DEF Stays
  <2>2. \A j \in Strms : Mine(i, j)' = Mine(i, j)
    BY <1>2, <1>9, <1>20 DEF Mine
  <2>. QED  BY <1>1, <1>9, <2>1, <2>2, RightStays
<1>21. ASSUME spc' = "send" PROVE Answering'
  <2>1. from' = c /\ dest' = s /\ held' = g /\ g[1].str = k
    BY <1>2, <1>9, <1>10, <1>17, <1>21
  <2>2. Back(c, k)' = Back(c, k) /\ streams' = streams
    BY <1>9 DEF Back, program
  <2>. QED  BY <1>7, <2>1, <2>2 DEF Answering, Back
<1>. QED  BY <1>15, <1>19, <1>20, <1>21 DEF FlowInv

\* The association of a client that is still there has the stream of the answer.
LEMMA AnswerFits ==
  ASSUME FlowInv, spc = "send", ~Gone(from)
  PROVE  dest < streams[from]
<1>1. FlowTypes /\ held \in Seq(Msgs) /\ held # <<>>
  BY DEF FlowInv, FlowTypes
<1>2. PICK c \in Clients : c = from
  BY <1>1 DEF FlowTypes
<1>3. PICK h, x, t : h \in Seq(Msgs) /\ h = held /\ x = Head(h) /\ t = Tail(h)
  BY <1>1
<1>4. x \in Msgs /\ x = h[1]
  BY <1>1, <1>3, TailIs
<1>5. PICK k \in Strms : k = held[1].str
  BY <1>3, <1>4 DEF Msgs
<1>6. dest = Back(c, k) /\ k < streams[c]
  BY <1>2, <1>5 DEF FlowInv, Answering
<1>. QED  BY <1>1, <1>2, <1>6, BackOnce

\* It can fail only for a client that has gone.
LEMMA PutFailsKeeps ==
  ASSUME FlowInv, PutFails
  PROVE  FlowInv'
<1>1. FlowTypes /\ \A d \in Clients : Right(d)
  BY DEF FlowInv
<1>2. PICK c \in Clients : c = from
  BY <1>1 DEF FlowTypes, PutFails
<1>3. Gone(c)
  <2>1. ASSUME ~Gone(c) PROVE FALSE
    <3>1. dest >= streams[c] /\ dest \in Strms /\ spc = "send"
      BY <1>1, <1>2, <2>1 DEF PutFails, FlowTypes
    <3>2. dest < streams[c]
      BY <1>2, <2>1, <3>1, AnswerFits
    <3>3. dest \in Nat /\ streams[c] \in Nat
      BY <1>1, <3>1, StrmsAre, ClientHas
    <3>. QED  BY <3>1, <3>2, <3>3
  <2>. QED  BY <2>1
<1>4. /\ UNCHANGED <<program, up, down, from, dest, cpc, todo, await, sent, seen>>
      /\ held' = <<>> /\ spc' \in {"recv", "dead"} /\ (spc' = "dead" => Tcp) /\ spc = "send"
  BY DEF PutFails, reader, counts
<1>5. FlowTypes'
  BY <1>1, <1>4, EmptySeq DEF FlowTypes, program, Tcp, IsTcp
<1>6. ASSUME NEW d \in Clients PROVE Right(d)'
  <2>1. CASE d = c
    <3>1. Gone(d)' /\ Placed(d)'
      BY <1>1, <1>3, <1>4, <2>1, PlacedStays DEF Gone, Right
    <3>. QED  BY <3>1 DEF Right
  <2>2. CASE d # c
    <3>1. Stays(d) /\ spc # "dead" /\ \A j \in Strms : Mine(d, j)' = Mine(d, j)
      BY <1>2, <1>4, <2>2 DEF Stays, Mine
    <3>. QED  BY <1>1, <1>4, <3>1, RightStays
  <2>. QED  BY <2>1, <2>2
<1>. QED  BY <1>4, <1>5, <1>6 DEF FlowInv

-----------------------------------------------------------------------------
(* The whole.                                                              *)

\* At first there is nothing anywhere.
LEMMA FlowInitially ==
  ASSUME FlowInit
  PROVE  FlowInv
<1>1. PICK z \in Queues : z = [s \in Strms |-> <<>>] /\ \A s \in Strms : z[s] = <<>> /\ Len(z[s]) = 0
  <2>1. PICK z : z = [s \in Strms |-> <<>>]
    OBVIOUS
  <2>2. z \in Queues /\ \A s \in Strms : z[s] = <<>> /\ Len(z[s]) = 0
    BY <2>1, EmptySeq DEF Queues
  <2>. QED  BY <2>1, <2>2
<1>2. PICK o : o = [s \in Strms |-> 0]
  OBVIOUS
<1>3. o \in [Strms -> Nat] /\ \A s \in Strms : o[s] = 0
  BY <1>2
<1>4. \A c \in Clients : up[c] = z /\ down[c] = z /\ sent[c] = o /\ seen[c] = o
  BY <1>1, <1>2 DEF FlowInit, ByStream
<1>5. \A c \in Clients : todo[c] = <<>> /\ await[c] = 0 /\ cpc[c] = IF mode[c] = "none" THEN "done" ELSE "prompt"
  BY DEF FlowInit
<1>6. Buffered(z) <= Room
  <2>1. \A p : p \in Places(z) <=> \E s \in Strms : \E i \in 1 .. Len(z[s]) : p = <<s, i>>
    BY <1>1, InPlaces
  <2>2. \A s \in Strms : 1 .. Len(z[s]) = {}
    BY <1>1
  <2>3. Places(z) = {}
    BY <2>1, <2>2
  <2>4. Buffered(z) = 0
    BY <1>1, <2>3, InPlaces, FS_EmptySet
  <2>. QED  BY <2>4, StrmsAre
<1>7. FlowTypes
  <2>1. /\ mode \in Modes /\ increment \in BOOLEAN /\ streams \in [Clients -> StreamCounts \cup {1}]
        /\ Tcp => ~increment /\ \A c \in Clients : streams[c] = 1
    BY DEF FlowInit
  <2>2. cpc \in [Clients -> {"prompt", "send", "recv", "sock", "done"}]
    BY DEF FlowInit
  <2>3. todo \in [Clients -> Seq(Strms \X BOOLEAN)] /\ await \in [Clients -> 0 .. Asked]
    <3>1. <<>> \in Seq(Strms \X BOOLEAN) /\ 0 \in 0 .. Asked
      BY EmptySeq, StrmsAre
    <3>. QED  BY <3>1 DEF FlowInit
  <2>4. up \in [Clients -> Queues] /\ down \in [Clients -> Queues]
    BY <1>1 DEF FlowInit, ByStream
  <2>5. sent \in [Clients -> [Strms -> Nat]] /\ seen \in [Clients -> [Strms -> Nat]]
    BY <1>2, <1>3 DEF FlowInit, ByStream
  <2>6. held \in Seq(Msgs)
    BY EmptySeq DEF FlowInit
  <2>. QED  BY <2>1, <2>2, <2>3, <2>4, <2>5, <2>6, StrmsAre DEF FlowInit, FlowTypes
<1>8. ASSUME NEW c \in Clients PROVE Right(c)
  <2>1. Placed(c)
    <3>1. Buffered(up[c]) <= Room /\ Buffered(down[c]) <= Room
      BY <1>4, <1>6
    <3>. QED  BY <1>1, <1>4, <1>5, <3>1 DEF Placed
  <2>2. Chain(c)
    <3>1. ASSUME NEW s \in Strms PROVE UnderWay(c, s, Back(c, s))
      <4>1. PICK r : r = Back(c, s) /\ r \in Strms
        BY <1>7, BackOnce
      <4>2. Mine(c, s) = <<>> /\ Len(Mine(c, s)) = 0
        BY EmptySeq DEF Mine, FlowInit
      <4>3. Flows(z, <<>>, z[s], 0, 0, s, r)
        <5>1. \A q \in Strms : 1 .. Len(z[q]) = {}
          BY <1>1
        <5>2. Len(<<>>) = 0 /\ 1 .. Len(<<>>) = {}
          BY EmptySeq
        <5>. QED  BY <1>1, <4>1, <5>1, <5>2 DEF Flows, Follow
      <4>4. Flows(down[c], Mine(c, s), up[c][s], seen[c][s], sent[c][s], s, r)
        BY <1>3, <1>4, <4>2, <4>3
      <4>. QED  BY <4>1, <4>4, UnderIs
    <3>. QED  BY <3>1 DEF Chain
  <2>3. Round(c)
    <3>1. Out(c) = {} /\ Cardinality(Out(c)) = 0
      BY <1>3, <1>4, FS_EmptySet DEF Out
    <3>2. Len(todo[c]) = 0 /\ 1 .. Len(todo[c]) = {}
      BY <1>5, EmptySeq
    <3>3. \A s \in Strms : sent[c][s] = seen[c][s]
      BY <1>4
    <3>. QED  BY <1>5, <3>1, <3>2, <3>3 DEF Round
  <2>. QED  BY <2>1, <2>2, <2>3 DEF Right
<1>. QED  BY <1>7, <1>8 DEF FlowInv, FlowInit

\* Every step keeps the invariant.
LEMMA FlowInductive ==
  ASSUME FlowInv, [FlowNext]_flow
  PROVE  FlowInv'
<1>1. ASSUME NEW c \in Clients, FlowClient(c) PROVE FlowInv'
  <2>1. CASE Send(c)
    BY <2>1, SendKeeps
  <2>2. CASE Receive(c)
    BY <2>2, ReceiveKeeps
  <2>3. CASE SelectSocket(c)
    BY <2>3, SelectKeeps
  <2>4. CASE Sock(c)
    BY <2>4, SockKeeps
  <2>5. CASE SockEnds(c)
    BY <2>5, LeftKeeps DEF SockEnds
  <2>. QED  BY <1>1, <2>1, <2>2, <2>3, <2>4, <2>5 DEF FlowClient
<1>2. ASSUME NEW c \in Clients, FlowUser(c) PROVE FlowInv'
  <2>1. CASE Ask(c)
    BY <2>1, AskKeeps
  <2>2. CASE SelectInput(c)
    BY <2>2, SelectKeeps
  <2>3. CASE EndOfInput(c) \/ UserKills(c)
    BY <2>3, LeftKeeps DEF EndOfInput, UserKills
  <2>. QED  BY <1>2, <2>1, <2>2, <2>3 DEF FlowUser
<1>3. ASSUME FlowServer PROVE FlowInv'
  BY <1>3, MessageKeeps, PiecesKeeps, PutKeeps, PutFailsKeeps DEF FlowServer
<1>4. ASSUME UNCHANGED flow PROVE FlowInv'
  <2>1. UNCHANGED <<program, cpc, todo, await, up, down, sent, seen, server, spc, held, from, dest>>
    BY <1>4 DEF flow, reader, counts, server
  <2>2. FlowTypes'
    BY <2>1 DEF FlowInv, FlowTypes, program, Tcp, IsTcp
  <2>3. ASSUME NEW c \in Clients PROVE Right(c)'
    <3>1. Stays(c) /\ \A s \in Strms : Mine(c, s)' = Mine(c, s)
      BY <2>1 DEF Stays, Mine
    <3>. QED  BY <2>1, <3>1, RightStays DEF FlowInv
  <2>4. spc' = "send" /\ ~Gone(from)' => Answering'
    BY <2>1 DEF FlowInv, Answering, Back, Gone, program
  <2>. QED  BY <2>2, <2>3, <2>4 DEF FlowInv
<1>. QED  BY <1>1, <1>2, <1>3, <1>4 DEF FlowNext

\* Every variable keeps its type, nothing is in a stream the association lacks, and
\* a buffer holds no more than it may: FlowTypeOK.
THEOREM FlowTypeCorrect == FlowSpec => []FlowTypeOK
<1>1. FlowInv => FlowTypeOK
  <2>. SUFFICES ASSUME FlowInv PROVE FlowTypeOK
    OBVIOUS
  <2>1. FlowTypes
    BY DEF FlowInv
  <2>2. ASSUME NEW c \in Clients
        PROVE  /\ todo[c] \in Seq(Strms \X BOOLEAN) /\ await[c] \in 0 .. Asked
               /\ cpc[c] = "send" => todo[c] # <<>>
               /\ \A s \in Strms : s >= streams[c] => up[c][s] = <<>> /\ down[c][s] = <<>>
               /\ Buffered(up[c]) <= Room /\ Buffered(down[c]) <= Room
    BY <2>1, ClientHas DEF FlowInv, Right, Placed
  <2>3. spc = "send" /\ ~Gone(from) => dest < streams[from]
    BY AnswerFits
  <2>. QED  BY <2>1, <2>2, <2>3 DEF FlowTypeOK, FlowTypes
<1>. QED  BY <1>1, FlowInitially, FlowInductive, PTL DEF FlowSpec

\* Whatever a client has under way, each of its messages that it has not seen yet
\* is in one place, and they come back in the order they were sent; and a client
\* of ch10 has had every answer when it asks for the next line: InOrder.
THEOREM BackInOrder == FlowSpec => []InOrder
<1>1. FlowInv => InOrder
  <2>. SUFFICES ASSUME FlowInv, spc # "dead", NEW c \in Clients, ~Gone(c), NEW s \in Strms
                PROVE  /\ \E r \in Strms : UnderWay(c, s, r)
                       /\ mode[c] # "select" /\ cpc[c] = "prompt" => sent[c][s] = seen[c][s]
    BY DEF InOrder
  <2>1. FlowTypes /\ Right(c)
    BY DEF FlowInv
  <2>2. \E r \in Strms : UnderWay(c, s, r)
    BY <2>1, BackOnce DEF Right, Chain
  <2>3. ASSUME mode[c] # "select", cpc[c] = "prompt" PROVE sent[c][s] = seen[c][s]
    <3>1. Round(c) /\ await[c] = 0
      BY <2>1, <2>3 DEF Right, Round
    <3>2. Cardinality(Out(c)) + Len(todo[c]) <= 0
      BY <3>1 DEF Round
    <3>3. Len(todo[c]) \in Nat /\ Cardinality(Out(c)) \in Nat
      BY <2>1, ClientHas, LenProperties, OutIs
    <3>4. Cardinality(Out(c)) = 0
      BY <3>2, <3>3
    <3>5. Out(c) = {}
      BY <3>4, OutIs
    <3>. QED  BY <3>5 DEF Out
  <2>. QED  BY <2>2, <2>3
<1>. QED  BY <1>1, FlowInitially, FlowInductive, PTL DEF FlowSpec

==============================================================================
