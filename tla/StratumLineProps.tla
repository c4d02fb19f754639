--------------------------- MODULE StratumLineProps ---------------------------
(***************************************************************************)
(* What the client's line buffer and its writes promise.                   *)
(***************************************************************************)
EXTENDS StratumLine, SequencesExt, FiniteSets

Bytes == Nat \ {NewLine}

\* The types of the two ends and of the bytes between them.
TypeOK ==
    /\ open \in BOOLEAN /\ alive \in BOOLEAN
    /\ arriving \in Seq(Nat) /\ sockbuf \in Seq(Nat) /\ size \in Nat
    /\ reading \in {"idle", "wait", "recv", "token", "failed"}
    /\ lock \in Senders \cup {Free} /\ sent \in 0..OutLength
    /\ leaving \in Seq(Nat) /\ got \in Seq(Nat)
    /\ poolLines \in Seq(Seq(Bytes)) /\ delivered \in Seq(Seq(Bytes))
    /\ cut \in BOOLEAN /\ skipped \in BOOLEAN
    /\ attempts \in Seq([sent : 0..OutLength, ok : BOOLEAN])
    /\ sessions \in Nat

\* The bytes of s that are no newline, in their order.
WithoutNewLines(s) ==
    LET f[i \in 0..Len(s)] ==
            IF i = 0 THEN <<>>
            ELSE IF s[i] = NewLine THEN f[i - 1] ELSE Append(f[i - 1], s[i])
    IN  f[Len(s)]

NoEmptyLine == \A i \in 1..Len(poolLines) : poolLines[i] # <<>>

\* The buffer never holds more than its size: stratum_recv_line moves the
\* rest of the string with one byte more than its terminator, so there must
\* be two bytes after the string.
BufferFits == Len(sockbuf) + 2 <= size

\* What stratum_recv_line has returned, what is in the buffer and what is in
\* the socket are the bytes of the lines that the pool has sent on this
\* connection, in their order: none is lost or doubled where a line is cut out
\* of the buffer, returned in parts after 60 seconds, or left over from an
\* earlier connection, unless a newline was in front of a line that was cut out.
\* That takes an empty line or a read that gave up waiting just before a
\* newline; without them the lines returned are the lines sent.
LinesArriveWhole ==
    open =>
        /\ ~skipped =>
              /\ FlattenSeq(delivered) \o WithoutNewLines(sockbuf \o arriving)
                     = FlattenSeq(poolLines)
              /\ ~cut => IsPrefix(delivered, poolLines)
        /\ NoEmptyLine /\ ~cut => ~skipped

\* What reaches the pool is a part of each line whose sending has begun, and
\* all of those that were reported as sent, one after the other: the threads
\* that share the socket never write into each other's lines.
SendersTakeTurns ==
    open => got \o leaving =
            FlattenSeq([a \in 1..Len(attempts) |-> SubSeq(Line(a), 1, attempts[a].sent)])
              \o (IF lock = Free THEN <<>> ELSE SubSeq(Line(Current), 1, sent))

\* The lines that the pool makes of what it gets.
PoolSees == {i \in 1..Len(got \o leaving) : (got \o leaving)[i] = NewLine}

\* A line is reported as sent if and only if its newline has been written:
\* the pool sees as many lines as calls of stratum_send_line succeed, and a
\* share that is retried after a partial write is not counted twice.
SentIsSeen ==
    open /\ lock = Free => Cardinality(PoolSees) = Cardinality({a \in 1..Len(attempts) : attempts[a].ok})

\* Each line of the pool is returned, or the connection ends: a line that
\* came in one packet with the one before does not wait for the socket.
LinesAreRead ==
    \A i \in 1..MaxLines :
        Len(poolLines) >= i ~> (Len(delivered) >= i \/ ~open \/ skipped)
=============================================================================
