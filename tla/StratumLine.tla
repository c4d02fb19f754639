----------------------------- MODULE StratumLine -----------------------------
(***************************************************************************)
(* How lines travel on a stratum connection, in bytes.  stratum_thread     *)
(* cuts what the socket gives it into lines (stratum_socket_full,          *)
(* stratum_recv_line, stratum_buffer_append); stratum_thread and the       *)
(* workio thread write lines to a socket that never blocks                 *)
(* (stratum_send_line, send_line).  The pool is external.                  *)
(*                                                                         *)
(* A byte is a number that names its line and its place in it; the newline *)
(* is NewLine.  Bytes that are zero do not occur on a stratum connection.  *)
(***************************************************************************)
EXTENDS Integers, Sequences

CONSTANTS
    Senders,     \* the threads that write to the socket
    RBUFSIZE,    \* the buffer grows by this
    RECVSIZE,    \* the most that one recv returns
    Room,        \* bytes that the kernel takes for sending
    Lengths,     \* the lengths of the pool's lines, without newline
    OutLength,   \* the length of the client's lines, with newline
    MaxLines,    \* bound: lines of the pool on one connection
    MaxSends,    \* bound: calls of stratum_send_line on one connection
    MaxSessions  \* bound: connections

Free == "free"

ASSUME LineAssumption ==
    /\ Free \notin Senders
    /\ RBUFSIZE \in Nat /\ RECVSIZE \in 1..(RBUFSIZE - 1)
    /\ Room \in Nat \ {0} /\ Lengths \subseteq Nat /\ OutLength \in Nat \ {0}
    /\ MaxLines \in Nat /\ MaxSends \in Nat /\ MaxSessions \in Nat

VARIABLES
    open,       \* sctx->curl # NULL
    alive,      \* the pool has not closed its end
    arriving,   \* bytes in the client's socket
    sockbuf,    \* the string in sctx->sockbuf
    size,       \* sctx->sockbuf_size
    reading,    \* where stratum_recv_line is
    lock,       \* who holds sock_lock, or Free
    sent,       \* send_line: how much of the line is written
    leaving,    \* bytes in the client's socket for the pool
    got,        \* bytes that the pool has read
    poolLines,  \* history: the lines that the pool has sent
    delivered,  \* history: what stratum_recv_line has returned
    cut,        \* history: a line was returned before it was whole
    skipped,    \* history: a line was returned from behind a newline
    attempts,   \* history: the calls of send_line that have returned
    sessions    \* number of connections

history  == <<delivered, cut, skipped>>
reader   == <<sockbuf, size, reading, history>>
writer   == <<lock, sent, leaving, attempts>>
pool     == <<alive, arriving, got, poolLines>>
vars == <<open, sessions, reader, writer, pool>>

NewLine == 0

Byte(line, place) == 10 * line + place

HasNewLine(s) == \E i \in 1..Len(s) : s[i] = NewLine

\* The least place from i on at which s has a newline, or its end; and the
\* first one that has none.
NextNewLine(s, i) == CHOOSE j \in i..(Len(s) + 1) :
                        /\ j = Len(s) + 1 \/ s[j] = NewLine
                        /\ \A k \in i..(j - 1) : s[k] # NewLine
NextOther(s)      == CHOOSE j \in 1..(Len(s) + 1) :
                        /\ j = Len(s) + 1 \/ s[j] # NewLine
                        /\ \A k \in 1..(j - 1) : s[k] = NewLine

(***************************************************************************)
(* The connection.                                                         *)
(***************************************************************************)
\* stratum_connect: the buffer of the connection before is emptied, and keeps
\* its size.
Connect ==
    /\ ~open /\ lock = Free
    /\ sessions < MaxSessions
    /\ sessions' = sessions + 1
    /\ open' = TRUE /\ alive' = TRUE
    /\ sockbuf' = <<>>
    /\ reading' = "idle"
    /\ arriving' = <<>> /\ leaving' = <<>> /\ got' = <<>>
    /\ poolLines' = <<>> /\ delivered' = <<>> /\ cut' = FALSE /\ skipped' = FALSE
    /\ sent' = 0 /\ attempts' = <<>>
    /\ UNCHANGED <<size, lock>>

\* stratum_disconnect, when a read returns no line
Disconnect ==
    /\ open /\ lock = Free
    /\ reading = "failed"
    /\ open' = FALSE
    /\ sockbuf' = <<>>
    /\ reading' = "idle"
    /\ UNCHANGED <<sessions, size, history, writer, pool>>

(***************************************************************************)
(* The pool.                                                               *)
(***************************************************************************)
PoolSends(n) ==
    LET l == Len(poolLines) + 1
        line == [p \in 1..n |-> Byte(l, p)] IN
    /\ open /\ alive /\ l <= MaxLines
    /\ poolLines' = Append(poolLines, line)
    /\ arriving' = arriving \o line \o <<NewLine>>
    /\ UNCHANGED <<open, sessions, reader, writer, alive, got>>

PoolReads ==
    /\ open /\ alive /\ leaving # <<>>
    /\ got' = got \o leaving
    /\ leaving' = <<>>
    /\ UNCHANGED <<open, sessions, reader, lock, sent, attempts, alive, arriving, poolLines>>

PoolCloses ==
    /\ open /\ alive
    /\ alive' = FALSE
    /\ UNCHANGED <<open, sessions, reader, writer, arriving, got, poolLines>>

(***************************************************************************)
(* Reading a line.                                                         *)
(***************************************************************************)
Readable == arriving # <<>> \/ ~alive

\* Mutant of StartRead: stratum_socket_full only looks at the socket.
StartReadFromSocket ==
    /\ open /\ reading = "idle" /\ lock # "stratum"
    /\ Readable
    /\ reading' = IF HasNewLine(sockbuf) THEN "token" ELSE "wait"
    /\ UNCHANGED <<open, sessions, sockbuf, size, history, writer, pool>>

\* stratum_socket_full, and the test whether a line is there already
StartRead ==
    /\ open /\ reading = "idle" /\ lock # "stratum"
    /\ sockbuf # <<>> \/ Readable
    /\ reading' = IF HasNewLine(sockbuf) THEN "token" ELSE "wait"
    /\ UNCHANGED <<open, sessions, sockbuf, size, history, writer, pool>>

\* Nothing has come for opt_timeout, for 60 seconds when the buffer holds a
\* part of a line, or for one second between two recv: the connection is
\* given up each time.
ReadTimesOut ==
    /\ open /\ lock # "stratum" /\ ~Readable
    /\ \/ reading = "idle" /\ sockbuf = <<>>
       \/ reading \in {"wait", "recv"}
    /\ reading' = "failed"
    /\ UNCHANGED <<open, sessions, sockbuf, size, history, writer, pool>>

\* Mutant of Grown: the newest byte may take the place of the terminator.
GrownLate(n) == IF n > size THEN n + (RBUFSIZE - (n % RBUFSIZE)) ELSE size

\* stratum_buffer_append: n is what the string and its terminator take
Grown(n) == IF n >= size THEN n + (RBUFSIZE - (n % RBUFSIZE)) ELSE size

\* One round of the loop: the loop ends with a newline in the buffer, or when
\* 60 seconds have passed since it began.
Receive ==
    /\ reading \in {"wait", "recv"} /\ arriving # <<>>
    /\ \E n \in 1..RECVSIZE :
         /\ n <= Len(arriving)
         /\ sockbuf' = sockbuf \o SubSeq(arriving, 1, n)
         /\ arriving' = SubSeq(arriving, n + 1, Len(arriving))
    /\ size' = Grown(Len(sockbuf') + 1)
    /\ IF HasNewLine(sockbuf')
       THEN reading' = "token" /\ cut' = cut
       ELSE \/ reading' = "recv" /\ cut' = cut
            \/ reading' = "token" /\ cut' = TRUE
    /\ UNCHANGED <<open, sessions, delivered, skipped, writer, alive, got, poolLines>>

\* recv returns 0 when the pool has closed: what is in the buffer is dropped.
ReceiveEnds ==
    /\ reading \in {"wait", "recv"} /\ arriving = <<>> /\ ~alive
    /\ reading' = "failed"
    /\ UNCHANGED <<open, sessions, sockbuf, size, history, writer, pool>>

\* Mutant of Remainder: what follows the line is dropped.
RemainderDropped(s, first, end) == <<>>

\* What memmove leaves in the buffer, when the token of s is from first to
\* end - 1: strtok has put the end of a string at end, which is where memmove
\* begins after one newline in front of the token, and beyond it after more.
Remainder(s, first, end) ==
    LET len == end - first IN
    CASE Len(s) <= len + 1 -> <<>>
      [] Len(s) > len + 1 /\ first = 1 -> SubSeq(s, len + 2, Len(s))
      [] Len(s) > len + 1 /\ first > 1 -> SubSeq(s, len + 2, end - 1)

\* strtok skips newlines; a buffer of nothing else has no token.
Tokenise ==
    LET first == NextOther(sockbuf)
        end == NextNewLine(sockbuf, first) IN
    /\ reading = "token"
    /\ IF first > Len(sockbuf)
       THEN reading' = "failed" /\ UNCHANGED <<sockbuf, delivered, skipped>>
       ELSE /\ delivered' = Append(delivered, SubSeq(sockbuf, first, end - 1))
            /\ sockbuf' = Remainder(sockbuf, first, end)
            /\ skipped' = (skipped \/ first > 1)
            /\ reading' = "idle"
    /\ UNCHANGED <<open, sessions, size, cut, writer, pool>>

(***************************************************************************)
(* Writing a line.                                                         *)
(***************************************************************************)
Line(a) == [p \in 1..OutLength |-> IF p = OutLength THEN NewLine ELSE Byte(a, p)]
Current == Len(attempts) + 1

\* stratum_send_line; stratum_thread writes between its reads
BeginSend(t) ==
    /\ open /\ lock = Free
    /\ Current <= MaxSends
    /\ t = "stratum" => reading = "idle"
    /\ lock' = t
    /\ sent' = 0
    /\ UNCHANGED <<open, sessions, reader, leaving, attempts, pool>>

Return(ok) ==
    /\ attempts' = Append(attempts, [sent |-> sent, ok |-> ok])
    /\ lock' = Free
    /\ UNCHANGED <<open, sessions, reader, sent, leaving, pool>>

\* Mutant of SendSome: what was written before is not skipped.
SendSomeAgain(t) ==
    /\ lock = t /\ sent < OutLength
    /\ \E n \in 1..(Room - Len(leaving)) :
         /\ sent + n <= OutLength
         /\ leaving' = leaving \o SubSeq(Line(Current), 1, n)
         /\ sent' = sent + n
    /\ UNCHANGED <<open, sessions, reader, lock, attempts, pool>>

\* send takes what the kernel has room for.
SendSome(t) ==
    /\ lock = t /\ sent < OutLength
    /\ \E n \in 1..(Room - Len(leaving)) :
         /\ sent + n <= OutLength
         /\ leaving' = leaving \o SubSeq(Line(Current), sent + 1, sent + n)
         /\ sent' = sent + n
    /\ UNCHANGED <<open, sessions, reader, lock, attempts, pool>>

SendDone(t) == lock = t /\ sent = OutLength /\ Return(TRUE)

\* Mutant of SendFails: a line that was cut off is reported as sent.
SendFailsLater(t) ==
    /\ lock = t /\ sent < OutLength
    /\ Len(leaving) = Room \/ ~alive
    /\ attempts' = Append(attempts, [sent |-> sent, ok |-> TRUE])
    /\ lock' = Free
    /\ UNCHANGED <<open, sessions, reader, sent, leaving, pool>>

\* select does not wait: a full socket is a failure, even in the middle of a
\* line.  So is a connection that the pool has closed.
SendFails(t) ==
    /\ lock = t /\ sent < OutLength
    /\ Len(leaving) = Room \/ ~alive
    /\ Return(FALSE)

Reads == StartRead \/ ReadTimesOut \/ Receive \/ ReceiveEnds \/ Tokenise \/ Disconnect
Writes(t) == BeginSend(t) \/ SendSome(t) \/ SendDone(t) \/ SendFails(t)
Pool == PoolReads \/ PoolCloses \/ \E n \in Lengths : PoolSends(n)

Init ==
    /\ open = FALSE /\ alive = FALSE
    /\ arriving = <<>> /\ sockbuf = <<>> /\ size = RBUFSIZE
    /\ reading = "idle"
    /\ lock = Free /\ sent = 0 /\ leaving = <<>> /\ got = <<>>
    /\ poolLines = <<>> /\ delivered = <<>> /\ cut = FALSE /\ skipped = FALSE
    /\ attempts = <<>>
    /\ sessions = 0

Next == Connect \/ Reads \/ Pool \/ \E t \in Senders : Writes(t)

Spec == Init /\ [][Next]_vars

\* Both threads run; recv returns what has come rather than time out.
Fairness ==
    /\ WF_vars(StartRead \/ Receive \/ ReceiveEnds \/ Tokenise \/ Disconnect)
    /\ \A t \in Senders : WF_vars(SendSome(t) \/ SendDone(t) \/ SendFails(t))

FairSpec == Spec /\ Fairness
=============================================================================
