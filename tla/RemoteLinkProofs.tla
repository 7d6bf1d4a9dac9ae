-------------------------- MODULE RemoteLinkProofs --------------------------
(***************************************************************************)
(* The USB link, for either sender, every number of sessions and of        *)
(* transfers that fail or come too late, and every ring: the PSP holds     *)
(* input of this session or none, both ends agree on whether the link is   *)
(* up, and no transfer's words change under it.                            *)
(*                                                                         *)
(* The argument is in three parts.  The host's flags and buffers keep each *)
(* other (HostInv).  What a session leaves behind in the PSP is gone when  *)
(* the threads have settled, which an attach waits for (DeviceInv).  And   *)
(* each step of the PSP's exchange says how far the host has come          *)
(* (ExchangeInv), since a step is made only with the host's transfer, and  *)
(* nothing but the PSP's own step lets the host go further.                *)
(***************************************************************************)
EXTENDS RemoteLink, SequenceTheorems, TLAPS

-----------------------------------------------------------------------------
(* The host                                                                *)

Triple(s) == s = <<s[1], s[2], s[3]>>

Holders == {Free, [by |-> "magic", words |-> 1], [by |-> "hello", words |-> 3],
            [by |-> "context", words |-> 3]}

HostOK ==
  /\ control \in {"none", "device", "config", "done"}
  /\ g_handshake_started \in BOOLEAN /\ g_handshake_complete \in BOOLEAN
  /\ g_sending_magic \in BOOLEAN /\ g_waiting_hello \in BOOLEAN
  /\ async_ep \in BOOLEAN
  /\ in_ep \in {"none", "hello", "context"}
  /\ cmd_ep \in Holders
  /\ Triple(g_xfer_buf) /\ Triple(g_cmd_buf)

\* Until the enumeration is done the handshake has not begun.
NotBegun ==
  control # "done" =>
    /\ ~g_handshake_started /\ ~g_handshake_complete
    /\ ~g_sending_magic /\ ~g_waiting_hello
    /\ in_ep = "none" /\ cmd_ep = Free

\* Magic and hello belong to the time before the link is up, the context and
\* the events to the time after; and the hello is awaited with nothing else
\* under way.
InPhase ==
  /\ g_handshake_complete => in_ep # "hello" /\ cmd_ep.by \notin {"magic", "hello"}
  /\ ~g_handshake_complete => in_ep # "context" /\ cmd_ep.by # "context" /\ ~async_ep
  /\ in_ep = "hello" => cmd_ep = Free

\* BufferKept, by the buffers' words.
Kept ==
  /\ cmd_ep.by = "magic" => g_xfer_buf[1] = HOSTFS_MAGIC
  /\ cmd_ep.by = "hello" => g_xfer_buf = <<HOSTFS_MAGIC, HELLO, CAP_CONTEXT>>
  /\ cmd_ep.by = "context" => g_cmd_buf = <<HOSTFS_MAGIC, CONTEXT, Zero>>
  /\ async_ep => g_xfer_buf = <<Joy, Joy, Joy>>

HostInv == HostOK /\ NotBegun /\ InPhase /\ FlagsMatchTransfers /\ Kept

-----------------------------------------------------------------------------
(* The PSP                                                                 *)

Handling == {"async", "rearm", "detach", "attach"}
UsbSteps == {"wait", "failed", "arm", "ready", "connect"} \cup Handling
            \cup {"read_magic", "write_hello", "read_hello", "write_context",
                  "read_context"}

DeviceOK ==
  /\ attached \in BOOLEAN /\ g_async_event \in BOOLEAN
  /\ g_trans_event \in BOOLEAN /\ g_usb_ready \in BOOLEAN
  /\ async_armed \in BOOLEAN
  /\ usb \in UsbSteps
  /\ bulk \in [dir : {"none", "in", "out"}, ok : BOOLEAN]
  /\ ring \in Seq({session})
  /\ session \in Nat
  /\ async_data \in Nat \cup {Failed}

\* A flag the PSP has set and usb_thread has yet to act on.
AttachPending ==
  "attach" \in g_main_event \/ (usb \in Handling /\ "attach" \in result)
DetachPending ==
  "detach" \in g_main_event \/ (usb \in Handling \ {"attach"} /\ "detach" \in result)

\* A request is usb_thread's, and one the host can no longer take is done; an
\* attach finds the thread waiting.
Requests ==
  /\ bulk.dir = "out" => usb \in Reads
  /\ bulk.dir = "in" => usb \in {"write_hello", "write_context"}
  /\ ~attached => ~async_armed /\ (bulk.dir # "none" => g_trans_event)
  /\ ~attached /\ "detach" \notin g_main_event =>
       "async" \notin g_main_event /\ "attach" \notin g_main_event
  /\ "attach" \in g_main_event => usb = "wait"
  /\ usb \in Handling => bulk.dir = "none"
  /\ AttachPending => ~g_usb_ready

\* Once a detach has been handled, nothing of the session is left.
Gone ==
  ~attached /\ ~DetachPending =>
    /\ ~g_usb_ready /\ ring = <<>> /\ bulk.dir = "none"
    /\ usb \in {"wait", "attach", "read_magic"}

\* main_thread reads only while the link is up, and holds no input while it
\* waits for a connection.
Fresh ==
  /\ main = "read_wait" => g_usb_ready
  /\ main \in {"flush", "wait_connect", "connected"} => input = Neutral
  /\ main = "handle" => joyevent = session
  /\ input \in {Neutral, session}
  /\ "async" \in g_main_event \/ (usb = "async" /\ "async" \in result) =>
       async_data \in {Failed, session}

\* The next event has been asked for, or one has come and usb_thread will ask
\* for another.
Armed ==
  attached /\ (g_usb_ready \/ usb = "ready") =>
    \/ async_armed
    \/ "async" \in g_main_event /\ async_data # Failed
    \/ usb \in {"async", "rearm"} /\ "async" \in result /\ async_data # Failed

DeviceInv == DeviceOK /\ Requests /\ Gone /\ Fresh /\ Armed

-----------------------------------------------------------------------------
(* Both                                                                    *)

\* What the PSP's steps say of the host.
Waits == ~g_handshake_complete /\ cmd_ep.by # "hello"
Answered == ~g_handshake_complete /\ in_ep = "none"
Lost == Waits /\ in_ep = "none"
Agreed == g_handshake_complete /\ pops_context = psp_pops

\* The request of the step has been served.
Served == bulk.dir # "none" /\ g_trans_event /\ bulk.ok

\* Words that are no answer to the hello: magics.
Magics(words) == words # <<>> => words[1] = HOSTFS_MAGIC /\ (Len(words) > 1 => words[2] = HOSTFS_MAGIC)

\* What has been read is words the host sends, and a read that was served has
\* brought some.
HostWords == {HOSTFS_MAGIC, HELLO, CAP_CONTEXT, CONTEXT, Zero}

ReadSome ==
  /\ received \in Seq(HostWords)
  /\ usb \in Reads /\ Served => received # <<>>

ExchangeInv ==
  attached =>
    /\ AttachPending \/ (usb = "read_magic" /\ ~Served) => Lost
    /\ usb = "read_magic" => Waits
    /\ usb = "write_hello" => IF Served THEN Answered ELSE Waits
    /\ usb = "read_hello" =>
         IF Served /\ received = <<HOSTFS_MAGIC, HELLO, CAP_CONTEXT>>
         THEN g_handshake_complete \/ Lost
         ELSE /\ ~g_handshake_complete
              /\ Magics(received)
              /\ IF received = <<>> THEN Answered ELSE Waits
    /\ usb = "write_context" =>
         IF Served THEN Agreed ELSE g_handshake_complete \/ Lost
    /\ usb \in {"read_context", "arm", "ready", "connect"} \/ g_usb_ready => Agreed

IInv == HostInv /\ DeviceInv /\ ReadSome /\ ExchangeInv

-----------------------------------------------------------------------------
(* The host keeps its flags and buffers                                    *)

\* What a transfer's holder says of its words.
LEMMA HolderWords ==
  ASSUME cmd_ep \in Holders
  PROVE  /\ cmd_ep.by = "none" => cmd_ep = Free
         /\ cmd_ep.by = "magic" => cmd_ep = [by |-> "magic", words |-> 1]
         /\ cmd_ep.by = "hello" => cmd_ep = [by |-> "hello", words |-> 3]
         /\ cmd_ep.by = "context" => cmd_ep = [by |-> "context", words |-> 3]
         /\ cmd_ep.by \in {"none", "magic", "hello", "context"}
  BY DEF Holders, Free

\* The front of three words.
LEMMA FrontOfTriple ==
  ASSUME NEW s, Triple(s)
  PROVE  SubSeq(s, 1, 1) = <<s[1]>> /\ SubSeq(s, 1, 3) = s
<1>1. PICK one, three, S : one = 1 /\ three = 3 /\ S = {s[1], s[2], s[3]}
  OBVIOUS
<1>2. /\ one \in Int /\ three \in Int
      /\ \A i \in one..one : s[i] \in S
      /\ \A i \in one..three : s[i] \in S
  BY <1>1
<1>3. /\ SubSeq(s, one, one) \in Seq(S)
      /\ Len(SubSeq(s, one, one)) = IF one <= one THEN one - one + 1 ELSE 0
      /\ \A i \in 1..(one - one + 1) : SubSeq(s, one, one)[i] = s[one + i - 1]
  BY <1>2, SubSeqProperties
<1>4. /\ SubSeq(s, one, three) \in Seq(S)
      /\ Len(SubSeq(s, one, three)) = IF one <= three THEN three - one + 1 ELSE 0
      /\ \A i \in 1..(three - one + 1) : SubSeq(s, one, three)[i] = s[one + i - 1]
  BY <1>2, SubSeqProperties
<1>5. PICK front, all : front = SubSeq(s, one, one) /\ all = SubSeq(s, one, three)
  OBVIOUS
<1>6. /\ front \in Seq(S) /\ Len(front) = 1 /\ front[1] = s[1]
      /\ all \in Seq(S) /\ Len(all) = 3
      /\ all[1] = s[1] /\ all[2] = s[2] /\ all[3] = s[3]
  BY <1>1, <1>3, <1>4, <1>5
<1>7. front = <<s[1]>> /\ all = <<s[1], s[2], s[3]>>
  BY <1>6
<1> QED
  BY <1>1, <1>5, <1>7 DEF Triple

LEMMA FirstOfTriple ==
  ASSUME NEW s, Triple(s), NEW a
  PROVE  /\ Triple([s EXCEPT ![1] = a])
         /\ [s EXCEPT ![1] = a] = <<a, s[2], s[3]>>
  BY DEF Triple

\* The words of each command.
LEMMA WordsSent ==
  ASSUME HostOK
  PROVE  /\ cmd_ep.by = "magic" => CommandWords = <<g_xfer_buf[1]>>
         /\ cmd_ep.by = "hello" => CommandWords = g_xfer_buf
         /\ cmd_ep.by = "context" => CommandWords = g_cmd_buf
<1>1. cmd_ep \in Holders /\ Triple(g_xfer_buf) /\ Triple(g_cmd_buf)
  BY DEF HostOK
<1>2. CASE cmd_ep.by = "magic"
  <2>1. CommandWords = SubSeq(g_xfer_buf, 1, 1)
    BY <1>1, <1>2, HolderWords DEF CommandWords
  <2> QED
    BY <1>1, <1>2, <2>1, FrontOfTriple DEF Triple
<1>3. CASE cmd_ep.by = "hello"
  <2>1. CommandWords = SubSeq(g_xfer_buf, 1, 3)
    BY <1>1, <1>3, HolderWords DEF CommandWords
  <2> QED
    BY <1>1, <1>3, <2>1, FrontOfTriple DEF Triple
<1>4. CASE cmd_ep.by = "context"
  <2>1. CommandWords = SubSeq(g_cmd_buf, 1, 3)
    BY <1>1, <1>4, HolderWords DEF CommandWords
  <2> QED
    BY <1>1, <1>4, <2>1, FrontOfTriple DEF Triple
<1> QED
  BY <1>2, <1>3, <1>4

LEMMA MountKeeps ==
  ASSUME HostInv, tuh_mount_cb
  PROVE  HostInv'
  BY DEF HostInv, HostOK, Holders, NotBegun, InPhase, Kept, FlagsMatchTransfers,
         tuh_mount_cb, reset_host, Free

LEMMA UnmountKeeps ==
  ASSUME HostInv, tuh_umount_cb
  PROVE  HostInv'
  BY DEF HostInv, HostOK, Holders, NotBegun, InPhase, Kept, FlagsMatchTransfers,
         tuh_umount_cb, reset_host, Free

LEMMA Rp2040MountKeeps ==
  ASSUME HostInv, Rp2040!tuh_mount_cb
  PROVE  HostInv'
  BY DEF HostInv, HostOK, Holders, NotBegun, InPhase, Kept, FlagsMatchTransfers,
         Rp2040!tuh_mount_cb, Rp2040!clear_endpoints, Rp2040!Free, Free

LEMMA Rp2040UnmountKeeps ==
  ASSUME HostInv, Rp2040!tuh_umount_cb
  PROVE  HostInv'
  BY DEF HostInv, HostOK, Holders, NotBegun, InPhase, Kept, FlagsMatchTransfers,
         Rp2040!tuh_umount_cb, Rp2040!clear_endpoints, Rp2040!Free, Free

LEMMA DeviceReadKeeps ==
  ASSUME HostInv, NEW success \in BOOLEAN, device_read(success)
  PROVE  HostInv'
  BY DEF HostInv, HostOK, Holders, NotBegun, InPhase, Kept, FlagsMatchTransfers,
         device_read, handshakeVars, Free

LEMMA EnumerationEnds ==
  ASSUME HostInv, control' = "done", UNCHANGED <<handshakeVars, g_xfer_buf, g_cmd_buf, in_ep, cmd_ep,
                               async_ep>>
  PROVE  HostInv'
  BY DEF HostInv, HostOK, Holders, NotBegun, InPhase, Kept, FlagsMatchTransfers,
         handshakeVars, Free

LEMMA ContextAnsweredKeeps ==
  ASSUME HostInv, context_response_sent
  PROVE  HostInv'
  BY DEF HostInv, HostOK, Holders, NotBegun, InPhase, Kept, FlagsMatchTransfers,
         context_response_sent, enumVars, handshakeVars, Free

LEMMA ProcessQueueKeeps ==
  ASSUME HostInv, process_queue
  PROVE  HostInv'
  BY DEF HostInv, HostOK, Holders, NotBegun, InPhase, Kept, FlagsMatchTransfers,
         process_queue, enumVars, handshakeVars, Triple

LEMMA EventSentKeeps ==
  ASSUME HostInv, event_sent
  PROVE  HostInv'
  BY DEF HostInv, HostOK, Holders, NotBegun, InPhase, Kept, FlagsMatchTransfers,
         event_sent, enumVars, handshakeVars

\* send_magic keeps the hello's answer in the buffer, if that is what the
\* command endpoint holds, and the magic, since it writes the same word.
LEMMA SendMagicKeeps ==
  ASSUME HostInv, NEW ep \in {cmd_ep, Free}, send_magic(ep),
         control' = "done", ~g_handshake_complete, g_handshake_complete' = FALSE,
         g_handshake_started' \in BOOLEAN,
         in_ep' = "none", UNCHANGED <<g_cmd_buf, async_ep>>,
         cmd_ep.by = "magic" => ep = Free
  PROVE  HostInv'
<1>1. /\ cmd_ep \in Holders /\ Triple(g_xfer_buf) /\ Triple(g_cmd_buf)
      /\ ~async_ep /\ cmd_ep.by # "context"
  BY DEF HostInv, HostOK, InPhase
<1>2. /\ Triple(g_xfer_buf)' /\ g_xfer_buf' = <<HOSTFS_MAGIC, g_xfer_buf[2], g_xfer_buf[3]>>
  BY <1>1, FirstOfTriple DEF send_magic, HOSTFS_MAGIC, RJM_HOSTFS_MAGIC
<1>3. CASE ep = Free
  <2>1. cmd_ep' = [by |-> "magic", words |-> 1] /\ g_sending_magic' = TRUE /\ g_waiting_hello' = FALSE
    BY <1>3 DEF send_magic
  <2>2. cmd_ep'.by = "magic" /\ cmd_ep' \in Holders /\ g_xfer_buf'[1] = HOSTFS_MAGIC
    BY <1>2, <2>1 DEF Holders
  <2>3. HostOK'
    BY <1>1, <1>2, <2>1, <2>2 DEF HostInv, HostOK, Triple
  <2> QED
    BY <1>1, <2>1, <2>2, <2>3 DEF HostInv, NotBegun, InPhase, Kept,
       FlagsMatchTransfers
<1>4. CASE ep # Free
  <2>1. /\ cmd_ep' = [by |-> "hello", words |-> 3] /\ g_sending_magic' = FALSE /\ g_waiting_hello' = FALSE
        /\ cmd_ep' = cmd_ep
    BY <1>1, <1>4, HolderWords DEF send_magic
  <2>2. g_xfer_buf' = <<HOSTFS_MAGIC, HELLO, CAP_CONTEXT>>
    BY <1>1, <1>2, <2>1 DEF HostInv, Kept
  <2>3. cmd_ep'.by = "hello" /\ cmd_ep' \in Holders
    BY <2>1 DEF Holders
  <2>4. HostOK'
    BY <1>1, <1>2, <2>1, <2>3 DEF HostInv, HostOK, Triple
  <2> QED
    BY <1>1, <2>1, <2>2, <2>3, <2>4 DEF HostInv, NotBegun, InPhase, Kept,
       FlagsMatchTransfers
<1> QED
  BY <1>3, <1>4

LEMMA ConfigReadKeeps ==
  ASSUME HostInv, NEW success \in BOOLEAN, config_read(success, TRUE)
  PROVE  HostInv'
<1>1. /\ control = "config" /\ control' = "done" /\ in_ep = "none" /\ cmd_ep = Free
      /\ ~g_handshake_complete /\ ~g_handshake_started /\ cmd_ep.by # "magic"
      /\ g_handshake_complete' = FALSE
      /\ UNCHANGED <<g_cmd_buf, in_ep, async_ep>>
  BY DEF config_read, HostInv, HostOK, NotBegun, Free
<1>2. CASE success
  <2>1. send_magic(cmd_ep) /\ g_handshake_started' = TRUE
    BY <1>1, <1>2 DEF config_read
  <2> QED
    BY <1>1, <2>1, SendMagicKeeps
<1>3. CASE ~success
  <2>1. UNCHANGED <<handshakeVars, g_xfer_buf, g_cmd_buf, in_ep, cmd_ep, async_ep>>
    BY <1>3 DEF config_read, handshakeVars
  <2> QED
    BY <1>1, <2>1, EnumerationEnds
<1> QED
  BY <1>2, <1>3

LEMMA Rp2040ConfigReadKeeps ==
  ASSUME HostInv, NEW success \in BOOLEAN, Rp2040!config_desc_cb(success, TRUE)
  PROVE  HostInv'
<1>1. /\ control = "config" /\ control' = "done" /\ in_ep = "none" /\ cmd_ep = Free
      /\ ~g_handshake_complete /\ ~g_handshake_started /\ cmd_ep.by # "magic"
      /\ ~async_ep
  BY DEF Rp2040!config_desc_cb, HostInv, NotBegun, InPhase, Free
<1>2. CASE success
  <2>1. /\ send_magic(cmd_ep) /\ g_handshake_started' /\ g_handshake_complete' = FALSE
        /\ UNCHANGED <<g_cmd_buf, in_ep, async_ep>>
    BY <1>1, <1>2 DEF Rp2040!config_desc_cb, Rp2040!parse_config_descriptor,
                      Rp2040!send_magic, send_magic, Rp2040!Free, Free,
                      Rp2040!RJM_HOSTFS_MAGIC, RJM_HOSTFS_MAGIC, HostInv, HostOK
  <2> QED
    BY <1>1, <2>1, SendMagicKeeps
<1>3. CASE ~success
  <2>1. UNCHANGED <<handshakeVars, g_xfer_buf, g_cmd_buf, in_ep, cmd_ep, async_ep>>
    BY <1>3 DEF Rp2040!config_desc_cb, Rp2040!handshakeVars, handshakeVars
  <2> QED
    BY <1>1, <2>1, EnumerationEnds
<1> QED
  BY <1>2, <1>3

LEMMA TimerKeeps ==
  ASSUME HostInv, usb_timer
  PROVE  HostInv'
<1>1. /\ control = "done" /\ control' = "done"
      /\ ~g_handshake_complete /\ g_handshake_complete' = FALSE /\ g_handshake_started' = TRUE
      /\ UNCHANGED <<g_cmd_buf, async_ep>>
  BY DEF usb_timer, enumVars, HostInv, HostOK, NotBegun
<1>2. in_ep' = "none"
  BY DEF usb_timer, HostInv, HostOK, InPhase, FlagsMatchTransfers
<1>3. PICK ep : ep = IF ~g_waiting_hello /\ g_sending_magic THEN Free ELSE cmd_ep
  OBVIOUS
<1>4. /\ ep \in {cmd_ep, Free} /\ send_magic(ep)
      /\ cmd_ep.by = "magic" => ep = Free
  BY <1>3 DEF usb_timer, HostInv, HostOK, InPhase, FlagsMatchTransfers, Free
<1> QED
  BY <1>1, <1>2, <1>4, SendMagicKeeps

LEMMA Rp2040TimerKeeps ==
  ASSUME HostInv, Rp2040!poll_handshake_timeout
  PROVE  HostInv'
<1>1. /\ control = "done" /\ control' = "done" /\ g_handshake_started
      /\ ~g_handshake_complete /\ g_handshake_complete' = FALSE
      /\ UNCHANGED <<g_cmd_buf, async_ep>>
  BY DEF Rp2040!poll_handshake_timeout, Rp2040!enumVars, HostInv, HostOK, NotBegun
<1>2. CASE g_sending_magic
  <2>1. /\ g_sending_magic' = FALSE /\ g_handshake_started' = FALSE
        /\ UNCHANGED <<g_waiting_hello, g_xfer_buf, in_ep, cmd_ep>>
    BY <1>2 DEF Rp2040!poll_handshake_timeout
  <2>2. HostOK' /\ NotBegun' /\ FlagsMatchTransfers'
    BY <1>1, <2>1 DEF HostInv, HostOK, NotBegun, FlagsMatchTransfers, Triple
  <2>3. InPhase' /\ Kept'
    BY <1>1, <2>1 DEF HostInv, HostOK, InPhase, Kept
  <2> QED
    BY <2>2, <2>3 DEF HostInv
<1>3. CASE ~g_sending_magic
  <2>1. /\ in_ep' = "none" /\ cmd_ep = Free /\ cmd_ep.by # "magic"
    BY <1>1, <1>3 DEF Rp2040!poll_handshake_timeout, HostInv, InPhase,
                      FlagsMatchTransfers, Free
  <2>2. /\ send_magic(cmd_ep) /\ g_handshake_started' = TRUE
    BY <1>1, <1>3 DEF Rp2040!poll_handshake_timeout, Rp2040!send_magic, send_magic,
                      Rp2040!Free, Free, Rp2040!RJM_HOSTFS_MAGIC, RJM_HOSTFS_MAGIC
  <2> QED
    BY <1>1, <2>1, <2>2, SendMagicKeeps
<1> QED
  BY <1>2, <1>3

\* One transfer's completion begins the next.
LEMMA MagicSentKeeps ==
  ASSUME HostInv, NEW success \in BOOLEAN, magic_sent(success)
  PROVE  HostInv'
<1>1. /\ cmd_ep.by = "magic" /\ cmd_ep' = Free /\ cmd_ep'.by = "none" /\ cmd_ep' \in Holders
      /\ g_sending_magic' = FALSE
      /\ UNCHANGED <<control, g_handshake_started, g_handshake_complete, g_cmd_buf, async_ep>>
  BY DEF magic_sent, enumVars, Holders, Free
<1>2. /\ cmd_ep # Free /\ control = "done" /\ ~g_handshake_complete /\ ~async_ep
      /\ in_ep = "none"
  BY <1>1 DEF HostInv, HostOK, NotBegun, InPhase, Free
<1>3. Triple(Cleared)
  BY DEF Triple, Cleared
<1>4. CASE success
  <2>1. g_xfer_buf' = Cleared /\ g_waiting_hello' = TRUE /\ in_ep' = "hello"
    BY <1>2, <1>4 DEF magic_sent
  <2> QED
    BY <1>1, <1>2, <1>3, <2>1 DEF HostInv, HostOK, NotBegun, InPhase, Kept,
       FlagsMatchTransfers, Triple
<1>5. CASE ~success
  <2>1. UNCHANGED <<g_xfer_buf, g_waiting_hello, in_ep>>
    BY <1>5 DEF magic_sent
  <2> QED
    BY <1>1, <1>2, <2>1 DEF HostInv, HostOK, NotBegun, InPhase, Kept,
       FlagsMatchTransfers, Triple
<1> QED
  BY <1>4, <1>5

LEMMA HelloReadKeeps ==
  ASSUME HostInv, NEW success \in BOOLEAN, NEW words, Triple(words), hello_read(success, words)
  PROVE  HostInv'
<1>1. /\ in_ep = "hello" /\ in_ep' = "none" /\ g_waiting_hello' = FALSE
      /\ UNCHANGED <<control, g_handshake_started, g_handshake_complete, g_sending_magic,
                     g_cmd_buf, async_ep>>
  BY DEF hello_read, enumVars
<1>2. /\ cmd_ep = Free /\ cmd_ep.by = "none" /\ Free.by = "none" /\ control = "done"
      /\ ~g_handshake_complete /\ ~async_ep
      /\ g_handshake_started => ~g_sending_magic
  BY <1>1 DEF HostInv, HostOK, NotBegun, InPhase, FlagsMatchTransfers, Free
<1>3. CASE cmd_ep' = cmd_ep
  <2>1. \/ g_xfer_buf' = <<RJM_HOSTFS_MAGIC, RJM_HOSTFS_CMD_HELLO, RJM_HOSTFS_CAP_CONTEXT>>
        \/ g_xfer_buf' = words
        \/ g_xfer_buf' = g_xfer_buf
    BY Zenon DEF hello_read
  <2>2. Triple(g_xfer_buf')
    BY <2>1 DEF HostInv, HostOK, Triple
  <2> QED
    BY <1>1, <1>2, <1>3, <2>2 DEF HostInv, HostOK, NotBegun, InPhase, Kept,
       FlagsMatchTransfers, Triple
<1>4. CASE cmd_ep' # cmd_ep
  <2>1. cmd_ep' = [by |-> "hello", words |-> 3]
    BY <1>2, <1>4 DEF hello_read
  <2>2. g_xfer_buf' = <<HOSTFS_MAGIC, HELLO, CAP_CONTEXT>>
    BY <1>4 DEF hello_read, HOSTFS_MAGIC, HELLO, CAP_CONTEXT, RJM_HOSTFS_MAGIC,
                RJM_HOSTFS_CMD_HELLO, RJM_HOSTFS_CAP_CONTEXT
  <2>3. cmd_ep'.by = "hello" /\ cmd_ep' \in Holders /\ Triple(g_xfer_buf')
    BY <2>1, <2>2 DEF Holders, Triple
  <2> QED
    BY <1>1, <1>2, <2>2, <2>3 DEF HostInv, HostOK, NotBegun, InPhase, Kept,
       FlagsMatchTransfers, Triple
<1> QED
  BY <1>3, <1>4

LEMMA HelloAnsweredKeeps ==
  ASSUME HostInv, NEW success \in BOOLEAN, hello_response_sent(success)
  PROVE  HostInv'
<1>1. /\ cmd_ep.by = "hello" /\ cmd_ep' = Free /\ cmd_ep'.by = "none" /\ cmd_ep' \in Holders
      /\ UNCHANGED <<control, g_handshake_started, g_sending_magic, g_waiting_hello,
                     g_xfer_buf, async_ep>>
  BY DEF hello_response_sent, enumVars, Holders, Free
<1>2. /\ cmd_ep # Free /\ control = "done" /\ ~g_handshake_complete /\ ~async_ep
      /\ in_ep = "none"
  BY <1>1 DEF HostInv, HostOK, NotBegun, InPhase, Free
<1>3. Triple(Cleared)
  BY DEF Triple, Cleared
<1>4. CASE success
  <2>1. g_handshake_complete' = TRUE /\ g_cmd_buf' = Cleared /\ in_ep' = "context"
    BY <1>2, <1>4 DEF hello_response_sent
  <2> QED
    BY <1>1, <1>2, <1>3, <2>1 DEF HostInv, HostOK, NotBegun, InPhase, Kept,
       FlagsMatchTransfers, Triple
<1>5. CASE ~success
  <2>1. UNCHANGED <<g_handshake_complete, g_cmd_buf, in_ep>>
    BY <1>5 DEF hello_response_sent
  <2> QED
    BY <1>1, <1>2, <2>1 DEF HostInv, HostOK, NotBegun, InPhase, Kept,
       FlagsMatchTransfers, Triple
<1> QED
  BY <1>4, <1>5

LEMMA ContextReadKeeps ==
  ASSUME HostInv, NEW success \in BOOLEAN, NEW words, context_read(success, words)
  PROVE  HostInv'
<1>1. /\ in_ep = "context" /\ in_ep' = "none"
      /\ UNCHANGED <<control, g_handshake_started, g_handshake_complete, g_sending_magic,
                     g_waiting_hello, g_xfer_buf, async_ep>>
  BY DEF context_read, enumVars, handshakeVars
<1>2. /\ control = "done" /\ g_handshake_complete /\ cmd_ep.by \notin {"magic", "hello"}
  BY <1>1 DEF HostInv, HostOK, NotBegun, InPhase
<1>3. CASE UNCHANGED <<cmd_ep, g_cmd_buf>>
  BY <1>1, <1>2, <1>3 DEF HostInv, HostOK, NotBegun, InPhase, Kept,
     FlagsMatchTransfers, Triple
<1>4. CASE ~UNCHANGED <<cmd_ep, g_cmd_buf>>
  <2>1. /\ g_cmd_buf' = <<HOSTFS_MAGIC, CONTEXT, Zero>>
        /\ cmd_ep' = IF cmd_ep = Free THEN [by |-> "context", words |-> 3] ELSE cmd_ep
    BY <1>4 DEF context_read, HOSTFS_MAGIC, CONTEXT, RJM_HOSTFS_MAGIC,
                RJM_HOSTFS_CMD_CONTEXT
  <2>2. cmd_ep' = [by |-> "context", words |-> 3]
    BY <1>2, <2>1, HolderWords DEF HostInv, HostOK
  <2>3. cmd_ep'.by = "context" /\ cmd_ep' \in Holders /\ Triple(g_cmd_buf')
    BY <2>1, <2>2 DEF Holders, Triple
  <2> QED
    BY <1>1, <1>2, <2>1, <2>3 DEF HostInv, HostOK, NotBegun, InPhase, Kept,
       FlagsMatchTransfers, Triple
<1> QED
  BY <1>3, <1>4

LEMMA HostUnchanged ==
  ASSUME HostInv, UNCHANGED hostVars
  PROVE  HostInv'
  BY DEF HostInv, HostOK, NotBegun, InPhase, Kept, FlagsMatchTransfers, Triple,
         hostVars, enumVars, handshakeVars

\* The completions are the same step in either sender.
LEMMA CommandReads ==
  ASSUME NEW success \in BOOLEAN, CommandRead(success)
  PROVE  hello_read(success, PspWords) \/ context_read(success, PspWords)
<1> DEFINE words == PspWords
<1> HIDE DEF words
<1>1. CASE sender = "pico"
  BY <1>1 DEF CommandRead, Either
<1>2. CASE sender # "pico"
  <2>1. \/ Rp2040!hostfs_hello_read_cb(success, words)
        \/ Rp2040!hostfs_context_read_cb(success, words)
    BY <1>2 DEF CommandRead, Either, words
  <2>2. hello_read(success, words) \/ context_read(success, words)
    BY <2>1 DEF Rp2040!hostfs_hello_read_cb, Rp2040!hostfs_context_read_cb,
         Rp2040!hello_read, Rp2040!context_read, hello_read, context_read,
         Rp2040!Free, Free, Rp2040!enumVars, enumVars, Rp2040!handshakeVars, handshakeVars,
         Rp2040!RJM_HOSTFS_MAGIC, RJM_HOSTFS_MAGIC, Rp2040!RJM_HOSTFS_CMD_HELLO,
         RJM_HOSTFS_CMD_HELLO, Rp2040!RJM_HOSTFS_CMD_CONTEXT, RJM_HOSTFS_CMD_CONTEXT,
         Rp2040!RJM_HOSTFS_CAP_CONTEXT, RJM_HOSTFS_CAP_CONTEXT, Rp2040!Zero, Zero
  <2> QED
    BY <2>2 DEF words
<1> QED
  BY <1>1, <1>2

LEMMA CommandsSent ==
  ASSUME NEW success \in BOOLEAN, CommandSent(success)
  PROVE  magic_sent(success) \/ hello_response_sent(success) \/ context_response_sent
<1>1. CASE sender = "pico"
  BY <1>1 DEF CommandSent, Either
<1>2. CASE sender # "pico"
  <2>1. \/ Rp2040!hostfs_magic_sent_cb(success)
        \/ Rp2040!hostfs_hello_response_sent_cb(success)
        \/ Rp2040!hostfs_context_response_sent_cb
    BY <1>2 DEF CommandSent, Either
  <2> QED
    BY <2>1 DEF Rp2040!hostfs_magic_sent_cb, Rp2040!hostfs_hello_response_sent_cb,
         Rp2040!hostfs_context_response_sent_cb,
         Rp2040!magic_sent, Rp2040!hello_response_sent, Rp2040!context_response_sent,
         magic_sent, hello_response_sent, context_response_sent,
         Rp2040!Free, Free, Rp2040!Cleared, Cleared, Rp2040!Zero, Zero,
         Rp2040!enumVars, enumVars, Rp2040!handshakeVars, handshakeVars
<1> QED
  BY <1>1, <1>2

LEMMA EventsSame ==
  /\ Either(process_queue, Rp2040!process_event_queue) <=> process_queue
  /\ EventSent <=> event_sent
  BY DEF Either, EventSent, Rp2040!process_event_queue, Rp2040!joy_event_sent_cb,
         Rp2040!process_queue, Rp2040!event_sent, process_queue, event_sent,
         Rp2040!Joy, Joy, Rp2040!enumVars, enumVars, Rp2040!handshakeVars, handshakeVars

LEMMA DeviceReadSame ==
  ASSUME NEW success \in BOOLEAN
  PROVE  Rp2040!device_desc_cb(success) <=> device_read(success)
  BY DEF Rp2040!device_desc_cb, Rp2040!device_read, device_read, 
         Rp2040!handshakeVars, handshakeVars

\* What each step of the bus does at the host's end.
LEMMA HostKept ==
  ASSUME HostInv, [Next]_vars
  PROVE  HostInv'
<1>1. CASE Psp \/ UNCHANGED vars \/ Attach \/ Unplug
  BY <1>1, HostUnchanged DEF Psp, vars, Attach, Unplug
<1>2. CASE Mount
  <2>1. tuh_mount_cb \/ Rp2040!tuh_mount_cb
    BY <1>2 DEF Mount, Either
  <2> QED
    BY <2>1, MountKeeps, Rp2040MountKeeps
<1>3. CASE Unmount
  <2>1. tuh_umount_cb \/ Rp2040!tuh_umount_cb
    BY <1>3 DEF Unmount, Either
  <2> QED
    BY <2>1, UnmountKeeps, Rp2040UnmountKeeps
<1>4. CASE Timeout
  <2>1. usb_timer \/ Rp2040!poll_handshake_timeout
    BY <1>4 DEF Timeout, Either
  <2> QED
    BY <2>1, TimerKeeps, Rp2040TimerKeeps
<1>5. CASE SendEvent
  BY <1>5, EventsSame, ProcessQueueKeeps DEF SendEvent
<1>6. ASSUME NEW success \in BOOLEAN, Enumerate(success)
      PROVE  HostInv'
  <2>1. \/ device_read(success) \/ config_read(success, TRUE)
        \/ Rp2040!device_desc_cb(success) \/ Rp2040!config_desc_cb(success, TRUE)
    BY <1>6 DEF Enumerate, Either
  <2> QED
    BY <2>1, DeviceReadSame, DeviceReadKeeps, ConfigReadKeeps, Rp2040ConfigReadKeeps
<1>7. CASE In \/ InFails
  <2>1. PICK success \in BOOLEAN : CommandRead(success)
    BY <1>7 DEF In, InFails
  <2>2. PICK words : words = PspWords
    OBVIOUS
  <2>3. Triple(words)
    BY <2>2 DEF PspWords, Triple
  <2>4. hello_read(success, words) \/ context_read(success, words)
    BY <2>1, <2>2, CommandReads
  <2> QED
    BY <2>3, <2>4, HelloReadKeeps, ContextReadKeeps
<1>8. CASE Out \/ \E delivered \in BOOLEAN : OutFails(delivered)
  <2>1. PICK success \in BOOLEAN : CommandSent(success)
    BY <1>8 DEF Out, OutFails
  <2> QED
    BY <2>1, CommandsSent, MagicSentKeeps, HelloAnsweredKeeps, ContextAnsweredKeeps
<1>9. CASE EventArrives \/ \E delivered \in BOOLEAN : EventFails(delivered)
  <2>1. event_sent
    BY <1>9, EventsSame DEF EventArrives, EventFails
  <2> QED
    BY <2>1, EventSentKeeps
<1> QED
  BY <1>1, <1>2, <1>3, <1>4, <1>5, <1>6, <1>7, <1>8, <1>9 DEF Next, Bus

\* The words are what TransfersTracked asks for.
LEMMA HostTracks ==
  ASSUME HostInv
  PROVE  TransfersTracked
<1>1. /\ cmd_ep.by = "magic" => CommandWords = <<HOSTFS_MAGIC>>
      /\ cmd_ep.by = "hello" => CommandWords = <<HOSTFS_MAGIC, HELLO, CAP_CONTEXT>>
      /\ cmd_ep.by = "context" => CommandWords = <<HOSTFS_MAGIC, CONTEXT, Zero>>
  BY WordsSent DEF HostInv, Kept
<1>2. async_ep => g_xfer_buf = [w \in 1..3 |-> Joy]
  BY DEF HostInv, Kept
<1>3. BufferKept
  BY <1>1, <1>2 DEF BufferKept
<1> QED
  BY <1>3 DEF TransfersTracked, HostInv

LEMMA HostBegins ==
  ASSUME Init
  PROVE  HostInv
  BY DEF Init, HostInit, HostInv, HostOK, Holders, NotBegun, InPhase, Kept,
         FlagsMatchTransfers, Triple, Cleared, Free

\* No transfer's words change under it, and the flags by which the timeout
\* decides what to abort say which transfer is in flight (usb_timer and
\* poll_handshake_timeout against the completions that share g_xfer_buf).
THEOREM TransfersAreTracked == Spec => []TransfersTracked
<1>1. Init => HostInv
  BY HostBegins
<1>2. HostInv /\ [Next]_vars => HostInv'
  BY HostKept
<1>3. HostInv => TransfersTracked
  BY HostTracks
<1> QED
  BY <1>1, <1>2, <1>3, PTL DEF Spec

-----------------------------------------------------------------------------
(* The PSP forgets a session                                               *)

LEMMA ExchangeSteps ==
  /\ Reads = {"read_magic", "read_hello", "read_context"}
  /\ ToSet(Exchange) = {"read_magic", "write_hello", "read_hello", "write_context",
                        "read_context"}
  /\ Head(Exchange) = "read_magic"
<1>1. Reads = {"read_magic", "read_hello", "read_context"}
  BY DEF Reads, Expected
<1>2. /\ DOMAIN Exchange = 1..5
      /\ Exchange[1] = "read_magic" /\ Exchange[2] = "write_hello"
      /\ Exchange[3] = "read_hello" /\ Exchange[4] = "write_context"
      /\ Exchange[5] = "read_context"
  BY DEF Exchange
<1>3. Head(Exchange) = "read_magic"
  BY DEF Exchange
<1>4. ToSet(Exchange) = {"read_magic", "write_hello", "read_hello", "write_context",
                         "read_context"}
  BY <1>2 DEF ToSet
<1> QED
  BY <1>1, <1>3, <1>4

\* Each step of the exchange leads to the next; a host without the capability
\* is asked for no context.
LEMMA AfterSteps ==
  /\ After("read_magic") = "write_hello"
  /\ After("write_hello") = "read_hello"
  /\ After("read_hello") = IF received[3] # CAP_CONTEXT THEN "arm" ELSE "write_context"
  /\ After("write_context") = "read_context"
  /\ After("read_context") = "arm"
<1>1. /\ DOMAIN Exchange = 1..5
      /\ Exchange[1] = "read_magic" /\ Exchange[2] = "write_hello"
      /\ Exchange[3] = "read_hello" /\ Exchange[4] = "write_context"
      /\ Exchange[5] = "read_context"
      /\ Last(Exchange) = "read_context"
  BY DEF Exchange, Last
<1> DEFINE at(step) == CHOOSE i \in DOMAIN Exchange : Exchange[i] = step
<1>2. /\ at("read_magic") = 1 /\ at("write_hello") = 2 /\ at("read_hello") = 3
      /\ at("write_context") = 4
  BY <1>1
<1> HIDE DEF at
<1>3. \A step : After(step) =
        IF step = "read_context" \/ (step = "read_hello" /\ received[3] # CAP_CONTEXT)
        THEN "arm" ELSE Exchange[1 + at(step)]
  BY <1>1 DEF After, at
<1> QED
  BY <1>1, <1>2, <1>3

LEMMA Rings ==
  ASSUME NEW S
  PROVE  /\ <<>> \in Seq(S)
         /\ \A s \in Seq(S), e \in S : Append(s, e) \in Seq(S)
  OBVIOUS

LEMMA Detached ==
  ASSUME DeviceInv, Detach, session' = session
  PROVE  DeviceInv'
<1>1. DeviceOK'
  BY DEF DeviceInv, DeviceOK, Detach, SetAsync, threadVars
<1>2. Requests'
  BY DEF DeviceInv, DeviceOK, Requests, Detach, threadVars
<1>3. Gone'
  BY DEF DeviceInv, Gone, DetachPending, Detach
<1>4. Fresh'
  BY DEF DeviceInv, Fresh, Detach, SetAsync, threadVars
<1>5. Armed'
  BY DEF DeviceInv, Armed, Detach
<1> QED
  BY <1>1, <1>2, <1>3, <1>4, <1>5 DEF DeviceInv

LEMMA InDone ==
  ASSUME DeviceInv, bulkin_done, session' = session
  PROVE  DeviceInv'
  BY DEF DeviceInv, DeviceOK, Requests, bulkin_done, threadVars, mainVars, Gone,
     AttachPending, Fresh, Armed

LEMMA OutDone ==
  ASSUME DeviceInv, NEW words, bulkout_done(words), session' = session
  PROVE  DeviceInv'
  BY DEF DeviceInv, DeviceOK, Requests, bulkout_done, mainVars, Gone,
     AttachPending, Fresh, Armed

LEMMA AsyncDone ==
  ASSUME DeviceInv, async_done(session), session' = session
  PROVE  DeviceInv'
<1>1. DeviceOK'
  BY DEF DeviceInv, DeviceOK, async_done, threadVars
<1>2. Requests'
  BY DEF DeviceInv, Requests, AttachPending, async_done, threadVars
<1>3. Gone'
  BY DEF DeviceInv, Requests, Gone, async_done
<1>4. Fresh'
  BY DEF DeviceInv, Fresh, async_done, mainVars
<1>5. Armed'
  BY DEF DeviceInv, DeviceOK, Armed, Failed, async_done, Failed
<1> QED
  BY <1>1, <1>2, <1>3, <1>4, <1>5 DEF DeviceInv

LEMMA Waited ==
  ASSUME DeviceInv, usb_wait, session' = session
  PROVE  DeviceInv'
  BY ExchangeSteps DEF DeviceInv, DeviceOK, Requests, UsbSteps, Handling,
     usb_wait, mainVars, requestVars, Gone, AttachPending, DetachPending, Fresh,
     Armed

LEMMA Filled ==
  ASSUME DeviceInv, usb_async, session' = session
  PROVE  DeviceInv'
<1>1. DeviceOK'
  <2>1. ring' \in Seq({session})
    BY DEF DeviceInv, DeviceOK, Fresh, usb_async, fill_async
  <2> QED
    BY <2>1 DEF DeviceInv, DeviceOK, UsbSteps, Handling, usb_async, SetAsync,
       requestVars
<1>2. Requests'
  BY DEF DeviceInv, Requests, AttachPending, Handling, usb_async, requestVars
<1>3. Gone'
  BY DEF DeviceInv, Gone, DetachPending, Handling, usb_async
<1>4. Fresh'
  BY DEF DeviceInv, Fresh, usb_async, SetAsync, requestVars
<1>5. Armed'
  BY DEF DeviceInv, Armed, usb_async, requestVars
<1> QED
  BY <1>1, <1>2, <1>3, <1>4, <1>5 DEF DeviceInv

LEMMA Rearmed ==
  ASSUME DeviceInv, usb_rearm, session' = session
  PROVE  DeviceInv'
  BY DEF DeviceInv, DeviceOK, Requests, UsbSteps, Handling, usb_rearm,
     set_async_req, mainVars, requestVars, Gone, AttachPending, DetachPending,
     Fresh, Armed

LEMMA DetachHandled ==
  ASSUME DeviceInv, usb_detach_branch, session' = session
  PROVE  DeviceInv'
<1>1. DeviceOK'
  <2>1. ring' \in Seq({session})
    BY Rings DEF DeviceInv, DeviceOK, usb_detach_branch
  <2> QED
    BY <2>1 DEF DeviceInv, DeviceOK, UsbSteps, Handling, usb_detach_branch,
       SetAsync, requestVars
<1>2. Requests'
  BY DEF DeviceInv, Requests, AttachPending, Handling, usb_detach_branch,
     requestVars
<1>3. Gone'
  BY DEF DeviceInv, Requests, Gone, DetachPending, usb_detach_branch, requestVars
<1>4. Fresh'
  BY DEF DeviceInv, Fresh, usb_detach_branch, SetAsync, requestVars
<1>5. Armed'
  BY DEF DeviceInv, Armed, usb_detach_branch, requestVars
<1> QED
  BY <1>1, <1>2, <1>3, <1>4, <1>5 DEF DeviceInv

LEMMA AttachHandled ==
  ASSUME DeviceInv, usb_attach_branch, session' = session
  PROVE  DeviceInv'
<1>1. DeviceOK'
  <2>1. ring' \in Seq({session})
    BY Rings DEF DeviceInv, DeviceOK, usb_attach_branch
  <2> QED
    BY <2>1, ExchangeSteps DEF DeviceInv, DeviceOK, UsbSteps, usb_attach_branch,
       requestVars
<1>2. Requests'
  BY DEF DeviceInv, Requests, AttachPending, Handling, usb_attach_branch,
     requestVars
<1>3. Gone'
  BY ExchangeSteps DEF DeviceInv, Gone, DetachPending, usb_attach_branch,
     requestVars
<1>4. Fresh'
  BY ExchangeSteps DEF DeviceInv, Requests, Fresh, AttachPending, Handling,
     usb_attach_branch, mainVars, requestVars
<1>5. Armed'
  BY ExchangeSteps DEF DeviceInv, Armed, usb_attach_branch, requestVars
<1> QED
  BY <1>1, <1>2, <1>3, <1>4, <1>5 DEF DeviceInv

LEMMA Submitted ==
  ASSUME DeviceInv, usb_submit, session' = session
  PROVE  DeviceInv'
<1>1. DeviceOK'
  <2>1. /\ usb' \in {usb, Failure}
        /\ \/ bulk' = bulk
           \/ bulk' = [dir |-> "out", ok |-> FALSE]
           \/ bulk' = [dir |-> "in", ok |-> FALSE]
        /\ g_trans_event' \in {g_trans_event, FALSE}
    BY DEF usb_submit
  <2>2. /\ bulk' \in [dir : {"none", "in", "out"}, ok : BOOLEAN]
    <3>1. /\ [dir |-> "out", ok |-> FALSE] \in [dir : {"none", "in", "out"}, ok : BOOLEAN]
          /\ [dir |-> "in", ok |-> FALSE] \in [dir : {"none", "in", "out"}, ok : BOOLEAN]
      OBVIOUS
    <3>2. bulk \in [dir : {"none", "in", "out"}, ok : BOOLEAN]
      BY DEF DeviceInv, DeviceOK
    <3> QED
      BY <2>1, <3>1, <3>2, Zenon
  <2>3. usb' \in UsbSteps /\ g_trans_event' \in BOOLEAN
    BY <2>1 DEF DeviceInv, DeviceOK, UsbSteps, Failure
  <2> QED
    BY <2>2, <2>3 DEF DeviceInv, DeviceOK, usb_submit
<1>2. Requests'
  BY ExchangeSteps DEF DeviceInv, Requests, AttachPending, Handling, usb_submit,
     Failure
<1>3. Gone'
  BY ExchangeSteps DEF DeviceInv, Gone, DetachPending, Handling, usb_submit,
     Failure
<1>4. Fresh'
  BY ExchangeSteps DEF DeviceInv, Fresh, usb_submit, mainVars, Failure
<1>5. Armed'
  BY ExchangeSteps DEF DeviceInv, Armed, usb_submit, Failure
<1> QED
  BY <1>1, <1>2, <1>3, <1>4, <1>5 DEF DeviceInv

LEMMA Done ==
  ASSUME DeviceInv, usb_done, session' = session
  PROVE  DeviceInv'
<1>1. usb \in ToSet(Exchange) /\ bulk.dir # "none" /\ bulk' = NoRequest /\ bulk'.dir = "none"
  BY DEF usb_done, NoRequest
<1>2. usb' \in {Failure, usb, After(usb)}
  BY DEF usb_done
<1>3. usb' \in {"wait", "failed", "read_magic", "write_hello", "read_hello",
                "write_context", "read_context", "arm"}
  BY <1>1, <1>2, ExchangeSteps, AfterSteps DEF Failure
<1>4. /\ UNCHANGED <<attached, g_main_event, g_async_event, g_usb_ready, result,
                     async_armed, async_data, ring, mainVars>>
      /\ g_trans_event' = FALSE
  BY DEF usb_done
<1>5. /\ usb \notin Handling /\ usb' \notin Handling /\ usb' \notin {"ready"}
      /\ usb' = "wait" \/ "attach" \notin g_main_event
      /\ UNCHANGED <<AttachPending, DetachPending>>
      /\ attached \/ DetachPending
  BY <1>1, <1>3, <1>4, ExchangeSteps
     DEF Handling, AttachPending, DetachPending, DeviceInv, Requests, Gone
<1>6. DeviceOK'
  BY <1>1, <1>3, <1>4 DEF DeviceInv, DeviceOK, UsbSteps, NoRequest
<1>7. Requests' /\ Gone'
  BY <1>1, <1>4, <1>5 DEF DeviceInv, Requests, Gone
<1>8. Fresh' /\ Armed'
  BY <1>1, <1>3, <1>4, <1>5 DEF DeviceInv, Fresh, Armed, mainVars, Handling
<1> QED
  BY <1>6, <1>7, <1>8 DEF DeviceInv

LEMMA FailureLogged ==
  ASSUME DeviceInv, usb_failed, session' = session
  PROVE  DeviceInv'
  BY ExchangeSteps DEF DeviceInv, DeviceOK, Requests, UsbSteps, Handling,
     usb_failed, mainVars, requestVars, Gone, AttachPending, DetachPending, Fresh,
     Armed

LEMMA Prepared ==
  ASSUME DeviceInv, usb_arm, session' = session
  PROVE  DeviceInv'
  BY ExchangeSteps DEF DeviceInv, DeviceOK, Requests, UsbSteps, Handling,
     usb_arm, set_async_req, mainVars, Gone, AttachPending, DetachPending, Fresh,
     Armed

LEMMA Readied ==
  ASSUME DeviceInv, usb_ready, session' = session
  PROVE  DeviceInv'
  BY ExchangeSteps DEF DeviceInv, DeviceOK, Requests, UsbSteps, Handling,
     usb_ready, mainVars, requestVars, Gone, AttachPending, DetachPending, Fresh,
     Armed

LEMMA Connected ==
  ASSUME DeviceInv, usb_connect, session' = session
  PROVE  DeviceInv'
  BY ExchangeSteps DEF DeviceInv, DeviceOK, Requests, UsbSteps, Handling,
     usb_connect, mainVars, requestVars, Gone, AttachPending, DetachPending, Fresh,
     Armed

LEMMA MainReset ==
  ASSUME DeviceInv, main_reset, session' = session
  PROVE  DeviceInv'
  BY DEF DeviceInv, DeviceOK, Requests, main_reset, threadVars, requestVars,
     Gone, AttachPending, DetachPending, Fresh, Armed

LEMMA MainFlush ==
  ASSUME DeviceInv, main_flush, session' = session
  PROVE  DeviceInv'
<1>1. DeviceOK'
  <2>1. ring' \in Seq({session})
    BY DEF DeviceInv, main_flush, rjmUsbAsyncFlush
  <2> QED
    BY <2>1 DEF DeviceInv, DeviceOK, main_flush, rjmUsbAsyncFlush, threadVars,
       requestVars
<1>2. Requests'
  BY DEF DeviceInv, Requests, AttachPending, main_flush, threadVars, requestVars
<1>3. Gone'
  BY DEF DeviceInv, Gone, DetachPending, main_flush, rjmUsbAsyncFlush,
     threadVars, requestVars
<1>4. Fresh'
  BY DEF DeviceInv, Fresh, main_flush, threadVars, requestVars
<1>5. Armed'
  BY DEF DeviceInv, Armed, main_flush, threadVars, requestVars
<1> QED
  BY <1>1, <1>2, <1>3, <1>4, <1>5 DEF DeviceInv

LEMMA MainWaits ==
  ASSUME DeviceInv, rjmUsbWaitForConnect \/ main_connected, session' = session
  PROVE  DeviceInv'
  BY DEF DeviceInv, DeviceOK, Requests, rjmUsbWaitForConnect, main_connected,
     threadVars, requestVars, Gone, AttachPending, DetachPending, Fresh, Armed

LEMMA MainChecks ==
  ASSUME DeviceInv, rjmUsbIsConnected, session' = session
  PROVE  DeviceInv'
  BY DEF DeviceInv, DeviceOK, Requests, rjmUsbIsConnected, threadVars,
     requestVars, Gone, AttachPending, DetachPending, Fresh, Armed

LEMMA MainReadWait ==
  ASSUME DeviceInv, main_read_wait, session' = session
  PROVE  DeviceInv'
<1>1. DeviceOK'
  BY DEF DeviceInv, DeviceOK, main_read_wait, threadVars, requestVars
<1>2. Requests'
  BY DEF DeviceInv, Requests, AttachPending, main_read_wait, threadVars,
     requestVars
<1>3. Gone'
  BY DEF DeviceInv, Gone, DetachPending, main_read_wait, threadVars, requestVars
<1>4. Fresh'
  BY DEF DeviceInv, Fresh, main_read_wait, threadVars, requestVars
<1>5. Armed'
  BY DEF DeviceInv, Armed, main_read_wait, threadVars, requestVars
<1> QED
  BY <1>1, <1>2, <1>3, <1>4, <1>5 DEF DeviceInv

LEMMA MainReads ==
  ASSUME DeviceInv, rjmUsbAsyncRead, session' = session
  PROVE  DeviceInv'
  BY DEF DeviceInv, DeviceOK, Requests, Handling, rjmUsbAsyncRead, threadVars,
     requestVars, Gone, AttachPending, DetachPending, Fresh, Armed

LEMMA MainHandles ==
  ASSUME DeviceInv, main_handle_joyevent, session' = session
  PROVE  DeviceInv'
  BY DEF DeviceInv, DeviceOK, Requests, main_handle_joyevent, threadVars,
     requestVars, Gone, AttachPending, DetachPending, Fresh, Armed

LEMMA Suspends ==
  ASSUME DeviceInv, power_suspend, session' = session
  PROVE  DeviceInv'
<1>1. DeviceOK'
  BY DEF DeviceInv, DeviceOK, power_suspend, SetAsync, threadVars, requestVars
<1>2. Requests'
  BY DEF DeviceInv, Requests, power_suspend, threadVars, requestVars
<1>3. Gone'
  BY DEF DeviceInv, Gone, DetachPending, power_suspend, threadVars, requestVars
<1>4. Fresh'
  BY DEF DeviceInv, Fresh, power_suspend, SetAsync, threadVars, requestVars
<1>5. Armed'
  BY DEF DeviceInv, Armed, power_suspend, threadVars, requestVars
<1> QED
  BY <1>1, <1>2, <1>3, <1>4, <1>5 DEF DeviceInv

LEMMA SetsDetach ==
  ASSUME DeviceInv, power_set_detach, session' = session
  PROVE  DeviceInv'
  BY DEF DeviceInv, DeviceOK, Requests, power_set_detach, threadVars, mainVars,
     requestVars, Gone, AttachPending, DetachPending, Fresh, Armed

LEMMA PowerFlush ==
  ASSUME DeviceInv, power_flush, session' = session
  PROVE  DeviceInv'
<1>1. DeviceOK'
  <2>1. ring' \in Seq({session})
    BY DEF DeviceInv, power_flush, rjmUsbAsyncFlush
  <2> QED
    BY <2>1 DEF DeviceInv, DeviceOK, power_flush, rjmUsbAsyncFlush, threadVars,
       requestVars
<1>2. Requests'
  BY DEF DeviceInv, Requests, AttachPending, power_flush, threadVars, requestVars
<1>3. Gone'
  BY DEF DeviceInv, Gone, DetachPending, power_flush, rjmUsbAsyncFlush,
     threadVars, requestVars
<1>4. Fresh'
  BY DEF DeviceInv, Fresh, power_flush, threadVars, mainVars, requestVars
<1>5. Armed'
  BY DEF DeviceInv, Armed, power_flush, threadVars, requestVars
<1> QED
  BY <1>1, <1>2, <1>3, <1>4, <1>5 DEF DeviceInv

\* An attach finds the PSP with nothing of the last session.
LEMMA AttachFindsNothing ==
  ASSUME DeviceInv, Attach
  PROVE  /\ ~attached /\ usb = "wait" /\ bulk.dir = "none" /\ ~g_usb_ready /\ ring = <<>>
         /\ \A flag \in {"attach", "detach", "async"} : flag \notin g_main_event
         /\ main \in {"wait_connect", "connected"} /\ input = Neutral /\ ~async_armed
<1>1. ~attached /\ UsbWaits /\ main \in {"wait_connect", "connected", "read_wait"}
  BY DEF Attach, usb_attach, MainBlocked, MainAsleep
<1>2. usb = "wait" /\ \A flag \in {"attach", "detach", "async"} : flag \notin g_main_event
  BY <1>1 DEF UsbWaits, DeviceInv, Requests
<1>3. ~DetachPending
  BY <1>2 DEF DetachPending, Handling
<1>4. ~g_usb_ready /\ ring = <<>> /\ bulk.dir = "none" /\ ~async_armed
  BY <1>1, <1>3 DEF DeviceInv, Gone, Requests
<1>5. main \in {"wait_connect", "connected"} /\ input = Neutral
  BY <1>1, <1>4 DEF DeviceInv, Fresh
<1> QED
  BY <1>1, <1>2, <1>4, <1>5

LEMMA AttachKeepsDevice ==
  ASSUME DeviceInv, Attach
  PROVE  DeviceInv'
<1>1. /\ ~attached /\ usb = "wait" /\ bulk.dir = "none" /\ ~g_usb_ready /\ ring = <<>>
      /\ \A flag \in {"attach", "detach", "async"} : flag \notin g_main_event
      /\ main \in {"wait_connect", "connected"} /\ input = Neutral /\ ~async_armed
  BY AttachFindsNothing
<1>2. /\ attached' = TRUE /\ session' = session + 1
      /\ g_main_event' = g_main_event \cup {"attach"}
      /\ UNCHANGED <<g_async_event, g_usb_ready, ring, threadVars, mainVars, requestVars>>
  BY DEF Attach, usb_attach
<1>3. DeviceOK'
  <2>1. session' \in Nat /\ ring' \in Seq({session'})
    BY <1>1, <1>2, Rings DEF DeviceInv, DeviceOK
  <2> QED
    BY <1>1, <1>2, <2>1 DEF DeviceInv, DeviceOK, threadVars, requestVars
<1>4. Requests' /\ Gone'
  BY <1>1, <1>2 DEF DeviceInv, Requests, Gone, AttachPending, Handling, threadVars,
                    requestVars
<1>5. Fresh' /\ Armed'
  BY <1>1, <1>2 DEF DeviceInv, Fresh, Armed, threadVars, requestVars, mainVars
<1> QED
  BY <1>3, <1>4, <1>5 DEF DeviceInv

LEMMA DeviceUnchanged ==
  ASSUME DeviceInv, UNCHANGED <<deviceVars, session>>
  PROVE  DeviceInv'
  BY DEF DeviceInv, DeviceOK, Requests, Gone, Fresh, Armed, AttachPending,
     DetachPending,
         deviceVars

LEMMA UsbThreadKeeps ==
  ASSUME DeviceInv, usb_thread, session' = session
  PROVE  DeviceInv'
  BY Waited, Filled, Rearmed, DetachHandled, AttachHandled, Submitted, Done,
     FailureLogged, Prepared, Readied, Connected DEF usb_thread

LEMMA MainThreadKeeps ==
  ASSUME DeviceInv, main_thread, session' = session
  PROVE  DeviceInv'
  BY MainReset, MainFlush, MainWaits, MainChecks, MainReadWait, MainReads,
     MainHandles
     DEF main_thread

LEMMA PowerKeeps ==
  ASSUME DeviceInv, power_callback, session' = session
  PROVE  DeviceInv'
<1>1. CASE power_suspend \/ power_set_detach \/ power_flush
  BY <1>1, Suspends, SetsDetach, PowerFlush
<1>2. CASE power_deactivate
  <2>1. CASE attached
    BY <1>2, <2>1, Detached DEF power_deactivate
  <2>2. CASE ~attached
    <3>1. UNCHANGED <<attached, g_main_event, g_async_event, g_usb_ready, ring,
                      threadVars, mainVars, requestVars, session>>
      BY <1>2, <2>2 DEF power_deactivate
    <3> QED
      BY <3>1 DEF DeviceInv, DeviceOK, Requests, Gone, Fresh, Armed, AttachPending,
                  DetachPending, threadVars, mainVars, requestVars
  <2> QED
    BY <2>1, <2>2
<1> QED
  BY <1>1, <1>2 DEF power_callback

\* What each step of the bus does at the PSP's end.
LEMMA DeviceKept ==
  ASSUME DeviceInv, [Next]_vars
  PROVE  DeviceInv'
<1>1. CASE Attach
  BY <1>1, AttachKeepsDevice
<1>2. CASE Psp
  <2>1. session' = session
    BY <1>2 DEF Psp, busVars
  <2> QED
    BY <1>2, <2>1, UsbThreadKeeps, MainThreadKeeps, PowerKeeps DEF Psp
<1>3. CASE Unplug
  BY <1>3, Detached DEF Unplug, usb_detach, busVars
<1>4. CASE In
  BY <1>4, InDone DEF In, busVars
<1>5. CASE Out
  BY <1>5, OutDone DEF Out, busVars
<1>6. ASSUME NEW delivered \in BOOLEAN, OutFails(delivered)
      PROVE  DeviceInv'
  <2>1. session' = session
    BY <1>6 DEF OutFails, MayFail
  <2>2. bulkout_done(CommandWords) \/ UNCHANGED deviceVars
    BY <1>6 DEF OutFails
  <2> QED
    BY <2>1, <2>2, OutDone, DeviceUnchanged
<1>7. CASE EventArrives
  BY <1>7, AsyncDone DEF EventArrives, busVars
<1>8. ASSUME NEW delivered \in BOOLEAN, EventFails(delivered)
      PROVE  DeviceInv'
  <2>1. session' = session
    BY <1>8 DEF EventFails, MayFail
  <2>2. async_done(session) \/ UNCHANGED deviceVars
    BY <1>8 DEF EventFails
  <2> QED
    BY <2>1, <2>2, AsyncDone, DeviceUnchanged
<1>9. CASE UNCHANGED vars \/ Mount \/ Unmount \/ SendEvent
  BY <1>9, DeviceUnchanged DEF vars, busVars, Mount, Unmount, SendEvent
<1>10. ASSUME NEW success \in BOOLEAN, Enumerate(success) \/ InFails \/ Timeout
       PROVE  DeviceInv'
  <2>1. UNCHANGED deviceVars /\ session' = session
    BY <1>10 DEF Enumerate, InFails, Timeout, MayFail, busVars
  <2> QED
    BY <2>1, DeviceUnchanged
<1> QED
  BY <1>1, <1>2, <1>3, <1>4, <1>5, <1>6, <1>7, <1>8, <1>9, <1>10 DEF Next, Bus

LEMMA DeviceBegins ==
  ASSUME Init
  PROVE  DeviceInv
<1>1. DeviceOK
  BY Rings DEF Init, DeviceInit, DeviceOK, UsbSteps, NoRequest, Failed
<1> QED
  BY <1>1 DEF Init, DeviceInit, DeviceInv, Requests, Gone, Fresh, Armed,
     AttachPending,
              DetachPending, Handling, NoRequest, Neutral, Failed

\* While the sender believes the link is up the PSP holds input of this session
\* or none (the flushes of usb_thread and main_thread, reset_remote_input_state
\* and rjmUsbSuspend, against an unplugging at any point).
THEOREM InputIsFresh == Spec => []FreshInput
<1>1. Init => DeviceInv
  BY DeviceBegins
<1>2. DeviceInv /\ [Next]_vars => DeviceInv'
  BY DeviceKept
<1>3. DeviceInv => FreshInput
  BY DEF DeviceInv, Fresh, FreshInput
<1> QED
  BY <1>1, <1>2, <1>3, PTL DEF Spec

-----------------------------------------------------------------------------
(* What the PSP reads                                                      *)

LEMMA CommandIsWords ==
  ASSUME HostInv, cmd_ep # Free
  PROVE  /\ \/ cmd_ep.by = "magic" /\ CommandWords = <<HOSTFS_MAGIC>>
            \/ cmd_ep.by = "hello" /\ CommandWords = <<HOSTFS_MAGIC, HELLO, CAP_CONTEXT>>
            \/ cmd_ep.by = "context" /\ CommandWords = <<HOSTFS_MAGIC, CONTEXT, Zero>>
         /\ CommandWords \in Seq(HostWords) /\ Len(CommandWords) >= 1
<1>1. cmd_ep.by \in {"magic", "hello", "context"}
  BY HolderWords DEF HostInv, HostOK
<1>2. /\ cmd_ep.by = "magic" => CommandWords = <<HOSTFS_MAGIC>>
      /\ cmd_ep.by = "hello" => CommandWords = <<HOSTFS_MAGIC, HELLO, CAP_CONTEXT>>
      /\ cmd_ep.by = "context" => CommandWords = <<HOSTFS_MAGIC, CONTEXT, Zero>>
  BY WordsSent DEF HostInv, Kept
<1>3. \/ cmd_ep.by = "magic" /\ CommandWords = <<HOSTFS_MAGIC>>
      \/ cmd_ep.by = "hello" /\ CommandWords = <<HOSTFS_MAGIC, HELLO, CAP_CONTEXT>>
      \/ cmd_ep.by = "context" /\ CommandWords = <<HOSTFS_MAGIC, CONTEXT, Zero>>
  BY <1>1, <1>2
<1>4. PICK w : w = CommandWords
  OBVIOUS
<1>5. w \in Seq(HostWords) /\ Len(w) >= 1
  <2>1. /\ HOSTFS_MAGIC \in HostWords /\ HELLO \in HostWords /\ CAP_CONTEXT \in HostWords
        /\ CONTEXT \in HostWords /\ Zero \in HostWords
    BY DEF HostWords
  <2> HIDE DEF HostWords
  <2>2. CASE w = <<HOSTFS_MAGIC>>
    BY <2>1, <2>2
  <2>3. CASE w = <<HOSTFS_MAGIC, HELLO, CAP_CONTEXT>>
    BY <2>1, <2>3
  <2>4. CASE w = <<HOSTFS_MAGIC, CONTEXT, Zero>>
    BY <2>1, <2>4
  <2> QED
    BY <1>3, <1>4, <2>2, <2>3, <2>4
<1> QED
  BY <1>3, <1>4, <1>5

\* Words appended to what has been read.
LEMMA MoreWords ==
  ASSUME NEW r \in Seq(HostWords), NEW w \in Seq(HostWords), Len(w) >= 1
  PROVE  /\ r \o w \in Seq(HostWords) /\ r \o w # <<>>
         /\ r = <<>> => r \o w = w
         /\ Magics(r) /\ w = <<HOSTFS_MAGIC>> => Magics(r \o w)
<1>1. PICK s : s = r \o w
  OBVIOUS
<1>2. /\ s \in Seq(HostWords) /\ Len(s) = Len(r) + Len(w)
      /\ \A i \in 1..Len(s) : s[i] = IF i <= Len(r) THEN r[i] ELSE w[i - Len(r)]
  BY <1>1
<1>3. s # <<>> /\ Len(r) \in Nat /\ Len(w) \in Nat
  BY <1>2
<1>4. ASSUME r = <<>> PROVE s = w
  BY <1>1, <1>4
<1>5. ASSUME Magics(r), w = <<HOSTFS_MAGIC>> PROVE Magics(s)
  <2>1. Len(w) = 1 /\ w[1] = HOSTFS_MAGIC
    BY <1>5
  <2>2. CASE Len(r) = 0
    BY <1>2, <2>1, <2>2 DEF Magics
  <2>3. CASE Len(r) = 1
    BY <1>2, <1>5, <2>1, <2>3 DEF Magics
  <2>4. CASE Len(r) > 1
    BY <1>2, <1>3, <1>5, <2>1, <2>4 DEF Magics
  <2>5. Len(r) = 0 \/ Len(r) = 1 \/ Len(r) > 1
    <3>1. PICK n \in Nat : n = Len(r)
      BY <1>3
    <3>2. n = 0 \/ n = 1 \/ n > 1
      OBVIOUS
    <3> QED
      BY <3>1, <3>2
  <2> QED
    BY <2>2, <2>3, <2>4, <2>5
<1> QED
  BY <1>1, <1>2, <1>3, <1>4, <1>5

LEMMA ReadKept ==
  ASSUME HostInv, DeviceInv, ReadSome, [Next]_vars
  PROVE  ReadSome'
<1>1. CASE UNCHANGED <<received, usb, bulk, g_trans_event>>
  BY <1>1 DEF ReadSome, Served
<1>2. CASE bulkout_done(CommandWords) /\ TakesOut
  <2>1. PICK w : w = CommandWords
    OBVIOUS
  <2>2. w \in Seq(HostWords) /\ Len(w) >= 1 /\ received' = received \o w
    BY <1>2, <2>1, CommandIsWords DEF TakesOut, bulkout_done
  <2> QED
    BY <2>2, MoreWords DEF ReadSome
<1>3. CASE bulkin_done
  <2>1. usb \notin Reads /\ UNCHANGED <<usb, received>>
    BY <1>3, ExchangeSteps DEF bulkin_done, threadVars, DeviceInv, Requests
  <2> QED
    BY <2>1 DEF ReadSome
<1>4. CASE Detach
  <2>1. UNCHANGED <<usb, received>> /\ (Served' => Served)
    BY <1>4 DEF Detach, threadVars, Served, DeviceInv, DeviceOK
  <2> QED
    BY <2>1 DEF ReadSome
<1>5. CASE usb_thread
  <2>1. received' \in {received, <<>>}
    BY <1>5 DEF usb_thread, usb_wait, usb_async, usb_rearm, usb_detach_branch,
         usb_attach_branch, usb_submit, usb_done, usb_failed, usb_arm, usb_ready, usb_connect
  <2>2. \/ ~Served'
        \/ UNCHANGED <<usb, received, bulk, g_trans_event>>
        \/ usb' \notin Reads
    BY <1>5, ExchangeSteps
       DEF usb_thread, usb_wait, usb_async, usb_rearm, usb_detach_branch, requestVars,
           usb_attach_branch, usb_submit, usb_done, usb_failed, usb_arm, usb_ready, usb_connect, 
           set_async_req, Served, NoRequest, DeviceInv, Requests, Handling
  <2>3. received' \in Seq(HostWords)
    BY <2>1, Rings DEF ReadSome
  <2> QED
    BY <2>2, <2>3 DEF ReadSome, Served
<1>6. CASE UNCHANGED vars \/ Attach \/ Mount \/ Unmount \/ SendEvent \/ EventArrives
  BY <1>1, <1>6 DEF vars, deviceVars, Attach, usb_attach, Mount, Unmount, SendEvent,
     EventArrives, async_done, threadVars, requestVars
<1>7. ASSUME NEW b \in BOOLEAN,
             Enumerate(b) \/ OutFails(b) \/ EventFails(b)
      PROVE  ReadSome'
  BY <1>1, <1>2, <1>7 DEF Enumerate, OutFails, EventFails, deviceVars,
     async_done, threadVars
<1>8. CASE InFails \/ Timeout
  BY <1>1, <1>8 DEF InFails, Timeout, deviceVars
<1>9. CASE main_thread
  BY <1>1, <1>9 DEF main_thread, main_reset, main_flush, rjmUsbWaitForConnect,
     main_connected, rjmUsbIsConnected, main_read_wait, rjmUsbAsyncRead,
     main_handle_joyevent,
     threadVars, requestVars
<1>10. CASE power_callback
  BY <1>1, <1>4, <1>10 DEF power_callback, power_suspend, power_set_detach,
     power_deactivate, power_flush, threadVars, requestVars
<1>11. CASE In \/ Out \/ Unplug
  BY <1>2, <1>3, <1>4, <1>11 DEF In, Out, Unplug, usb_detach
<1> QED
  BY <1>5, <1>6, <1>7, <1>8, <1>9, <1>10, <1>11 DEF Next, Bus, Psp

-----------------------------------------------------------------------------
(* The exchange                                                            *)

\* A step of the host by itself, or none, takes back nothing the PSP's steps
\* say of it.
HostHolds ==
  /\ UNCHANGED <<psp_pops, g_handshake_complete>>
  /\ Waits => Waits'
  /\ Answered => Answered'
  /\ Lost => Lost'
  /\ Agreed => Agreed'

LEMMA IdleHostHolds ==
  ASSUME UNCHANGED <<psp_pops, g_handshake_complete, in_ep, cmd_ep, pops_context>>
  PROVE  HostHolds
  BY DEF HostHolds, Waits, Answered, Lost, Agreed

LEMMA EnumeratingHolds ==
  ASSUME HostInv, NEW success \in BOOLEAN, Enumerate(success)
  PROVE  HostHolds
<1>1. psp_pops' = psp_pops
  BY DEF Enumerate, busVars, MayFail
<1>2. \/ device_read(success) \/ config_read(success, TRUE)
      \/ Rp2040!device_desc_cb(success) \/ Rp2040!config_desc_cb(success, TRUE)
  BY DEF Enumerate, Either
<1>3. CASE device_read(success) \/ Rp2040!device_desc_cb(success)
  BY <1>1, <1>3, DeviceReadSame, IdleHostHolds DEF device_read, handshakeVars
<1>4. CASE config_read(success, TRUE) \/ Rp2040!config_desc_cb(success, TRUE)
  <2>1. /\ control # "done" /\ ~g_handshake_complete /\ in_ep = "none"
        /\ g_handshake_complete \in BOOLEAN
    BY <1>4 DEF config_read, Rp2040!config_desc_cb, HostInv, HostOK, NotBegun
  <2>2. g_handshake_complete' = g_handshake_complete /\ in_ep' = in_ep
    BY <1>4, <2>1 DEF config_read, Rp2040!config_desc_cb,
       Rp2040!parse_config_descriptor,
                      Rp2040!handshakeVars
  <2>3. cmd_ep' = cmd_ep \/ cmd_ep' = [by |-> "magic", words |-> 1]
    BY <1>4 DEF config_read, send_magic, Rp2040!config_desc_cb,
                Rp2040!parse_config_descriptor, Rp2040!send_magic
  <2>4. cmd_ep'.by \in {cmd_ep.by, "magic"}
    BY <2>3
  <2> QED
    BY <1>1, <2>1, <2>2, <2>4 DEF HostHolds, Waits, Answered, Lost, Agreed
<1> QED
  BY <1>2, <1>3, <1>4

LEMMA MountHolds ==
  ASSUME HostInv, Mount
  PROVE  HostHolds
<1>1. psp_pops' = psp_pops /\ (tuh_mount_cb \/ Rp2040!tuh_mount_cb)
  BY DEF Mount, Either, busVars
<1>2. /\ g_handshake_complete = FALSE /\ in_ep = "none" /\ cmd_ep = Free
  BY <1>1 DEF tuh_mount_cb, Rp2040!tuh_mount_cb, HostInv, HostOK, NotBegun
<1>3. g_handshake_complete' = FALSE /\ in_ep' = "none" /\ cmd_ep' = Free
  BY <1>1 DEF tuh_mount_cb, Rp2040!tuh_mount_cb, reset_host, Rp2040!clear_endpoints,
              Rp2040!Free, Free
<1> QED
  BY <1>1, <1>2, <1>3 DEF HostHolds, Waits, Answered, Lost, Agreed

LEMMA TimeoutHolds ==
  ASSUME HostInv, Timeout
  PROVE  HostHolds
<1>1. psp_pops' = psp_pops /\ (usb_timer \/ Rp2040!poll_handshake_timeout)
  BY DEF Timeout, Either, busVars, MayFail
<1>2. ~g_handshake_complete /\ g_handshake_complete' = g_handshake_complete
  BY <1>1 DEF usb_timer, Rp2040!poll_handshake_timeout
<1>3. in_ep' \in {in_ep, "none"}
  BY <1>1 DEF usb_timer, Rp2040!poll_handshake_timeout
<1>4. cmd_ep' = cmd_ep \/ cmd_ep' = [by |-> "magic", words |-> 1]
  BY <1>1 DEF usb_timer, Rp2040!poll_handshake_timeout, send_magic,
     Rp2040!send_magic
<1>5. cmd_ep'.by \in {cmd_ep.by, "magic"}
  BY <1>4
<1> QED
  BY <1>1, <1>2, <1>3, <1>5 DEF HostHolds, Waits, Answered, Lost, Agreed

\* A failed read, or a failed command, whatever the PSP has seen of it.
LEMMA FailedReadHolds ==
  ASSUME HostInv, InFails
  PROVE  HostHolds
<1>1. psp_pops' = psp_pops /\ CommandRead(FALSE)
  BY DEF InFails, MayFail
<1>2. hello_read(FALSE, PspWords) \/ context_read(FALSE, PspWords)
  BY <1>1, CommandReads
<1>3. /\ in_ep' = "none"
      /\ UNCHANGED <<g_handshake_complete, cmd_ep, pops_context>>
  BY <1>2 DEF hello_read, context_read, handshakeVars
<1> QED
  BY <1>1, <1>3 DEF HostHolds, Waits, Answered, Lost, Agreed

LEMMA FailedCommandHolds ==
  ASSUME HostInv, CommandSent(FALSE), psp_pops' = psp_pops
  PROVE  /\ HostHolds
         /\ cmd_ep' = Free
         /\ UNCHANGED <<g_handshake_complete, in_ep, pops_context>>
<1>1. magic_sent(FALSE) \/ hello_response_sent(FALSE) \/ context_response_sent
  BY CommandsSent
<1>2. cmd_ep' = Free /\ UNCHANGED <<g_handshake_complete, in_ep, pops_context>>
  BY <1>1 DEF magic_sent, hello_response_sent, context_response_sent, handshakeVars
<1>3. cmd_ep'.by # "hello"
  BY <1>2 DEF Free
<1> QED
  BY <1>2, <1>3 DEF HostHolds, Waits, Answered, Lost, Agreed

LEMMA EventsHold ==
  ASSUME process_queue \/ event_sent, psp_pops' = psp_pops
  PROVE  HostHolds
  BY IdleHostHolds DEF process_queue, event_sent, handshakeVars

-----------------------------------------------------------------------------
\* The PSP is where it was, or out of the exchange.
LEMMA ExchangeGoesOn ==
  ASSUME ExchangeInv, HostHolds, attached' => attached,
         AttachPending' => AttachPending, g_usb_ready' => g_usb_ready,
         \/ UNCHANGED <<usb, bulk, g_trans_event, received>>
         \/ usb' \in {"wait", "failed"} \cup Handling
  PROVE  ExchangeInv'
<1>1. CASE usb' \in {"wait", "failed"} \cup Handling
  BY <1>1 DEF ExchangeInv, HostHolds, Handling
<1>2. CASE UNCHANGED <<usb, bulk, g_trans_event, received>>
  <2> USE <1>2 DEF HostHolds, Served
  <2>1. CASE usb = "read_magic"
    BY <2>1 DEF ExchangeInv
  <2>2. CASE usb = "write_hello"
    BY <2>2 DEF ExchangeInv
  <2>3. CASE usb = "read_hello"
    BY <2>3 DEF ExchangeInv
  <2>4. CASE usb = "write_context"
    BY <2>4 DEF ExchangeInv
  <2>5. CASE usb \notin {"read_magic", "write_hello", "read_hello", "write_context"}
    BY <2>5 DEF ExchangeInv
  <2> QED
    BY <2>1, <2>2, <2>3, <2>4, <2>5
<1> QED
  BY <1>1, <1>2

\* The thread leaves its wait, handles its flags, or is interrupted.
LEMMA ThreadOutside ==
  ASSUME DeviceInv, ExchangeInv, UNCHANGED <<hostVars, psp_pops>>,
         usb_wait \/ usb_async \/ usb_rearm \/ usb_detach_branch \/ usb_failed
         \/ usb_connect
  PROVE  ExchangeInv'
<1>1. HostHolds
  BY IdleHostHolds DEF hostVars
<1>2. usb' \in {"wait", "failed"} \cup Handling /\ attached' = attached
  BY DEF usb_wait, usb_async, usb_rearm, usb_detach_branch, usb_failed,
         usb_connect, Handling
<1>3. g_usb_ready' => g_usb_ready
  BY DEF usb_wait, usb_async, usb_rearm, usb_detach_branch, usb_failed,
         usb_connect
<1>4. AttachPending' => AttachPending
  BY DEF usb_wait, usb_async, usb_rearm, usb_detach_branch, usb_failed,
         usb_connect, AttachPending, Handling, set_async_req
<1> QED
  BY <1>1, <1>2, <1>3, <1>4, ExchangeGoesOn

LEMMA AttachBegins ==
  ASSUME ExchangeInv, UNCHANGED <<hostVars, psp_pops>>, usb_attach_branch
  PROVE  ExchangeInv'
<1>1. HostHolds /\ attached' = attached
  BY IdleHostHolds DEF hostVars, usb_attach_branch
<1>2. CASE "attach" \in result
  <2>1. usb' = "read_magic" /\ ~g_usb_ready' /\ (attached => Lost)
    BY <1>2, ExchangeSteps DEF usb_attach_branch, ExchangeInv, AttachPending,
       Handling
  <2>2. Lost => Waits
    BY DEF Lost
  <2> QED
    BY <1>1, <2>1, <2>2 DEF ExchangeInv, HostHolds
<1>3. CASE "attach" \notin result
  <2>1. /\ usb' = "wait"
        /\ AttachPending' => AttachPending
        /\ g_usb_ready' => g_usb_ready
    BY <1>3 DEF usb_attach_branch, AttachPending, Handling
  <2> QED
    BY <1>1, <2>1, ExchangeGoesOn
<1> QED
  BY <1>2, <1>3

\* A request that has just been made has not been served.
LEMMA RequestMade ==
  ASSUME ExchangeInv, UNCHANGED <<hostVars, psp_pops>>, usb_submit
  PROVE  ExchangeInv'
<1>1. /\ HostHolds /\ UNCHANGED <<attached, g_usb_ready, g_main_event, result, received>>
  BY IdleHostHolds DEF hostVars, usb_submit
<1>2. AttachPending' => AttachPending
  BY <1>1, ExchangeSteps DEF usb_submit, AttachPending, Handling, Failure
<1>3. CASE attached
  <2>1. /\ usb' = usb /\ ~Served /\ ~Served'
    BY <1>3 DEF usb_submit, Served
  <2> USE <1>1, <1>2, <2>1 DEF HostHolds
  <2>2. CASE usb = "read_magic"
    BY <2>2 DEF ExchangeInv
  <2>3. CASE usb = "write_hello"
    BY <2>3 DEF ExchangeInv
  <2>4. CASE usb = "read_hello"
    BY <2>4 DEF ExchangeInv
  <2>5. CASE usb = "write_context"
    BY <2>5 DEF ExchangeInv
  <2>6. CASE usb \notin {"read_magic", "write_hello", "read_hello", "write_context"}
    BY <2>6 DEF ExchangeInv
  <2> QED
    BY <2>2, <2>3, <2>4, <2>5, <2>6
<1>4. CASE ~attached
  BY <1>1, <1>4 DEF ExchangeInv
<1> QED
  BY <1>3, <1>4

\* A served request leads to the next step, and what it was served with says
\* how far the host has come.
LEMMA RequestDone ==
  ASSUME DeviceInv, ReadSome, ExchangeInv, UNCHANGED <<hostVars, psp_pops>>, usb_done,
         attached
  PROVE  ExchangeInv'
<1>1. /\ HostHolds /\ UNCHANGED <<attached, g_usb_ready, g_main_event, result>>
      /\ bulk'.dir = "none" /\ ~Served'
  BY IdleHostHolds DEF hostVars, usb_done, NoRequest, Served
<1>2. /\ usb \in {"read_magic", "write_hello", "read_hello", "write_context", "read_context"}
      /\ bulk.dir # "none" /\ g_trans_event
  BY ExchangeSteps DEF usb_done
<1>3. /\ "attach" \notin g_main_event /\ ~AttachPending /\ ~AttachPending'
  <2>1. "attach" \notin g_main_event
    BY <1>2 DEF DeviceInv, Requests
  <2>2. usb \notin Handling /\ usb' \notin Handling
    <3>1. usb' \in {Failure, usb, After(usb)}
      BY DEF usb_done
    <3> QED
      BY <1>2, <3>1, AfterSteps DEF Handling, Failure
  <2> QED
    BY <1>1, <2>1, <2>2 DEF AttachPending
<1>4. CASE ~bulk.ok
  <2>1. usb' \in {"wait", "failed"}
    BY <1>4 DEF usb_done, Failure
  <2> QED
    BY <1>1, <1>3, <2>1, ExchangeGoesOn
<1>5. CASE bulk.ok
  <2>1. Served
    BY <1>2, <1>5 DEF Served
  <2>2. CASE usb' \in {"wait", "failed"}
    BY <1>1, <1>3, <2>2, ExchangeGoesOn
  <2>3. CASE usb = "read_magic" /\ usb' \notin {"wait", "failed"}
    <3>1. received \in Seq(HostWords) /\ received # <<>>
      BY <2>1, <2>3, ExchangeSteps DEF ReadSome
    <3>2. ~(Len(received) < 1)
      BY <3>1
    <3>3. usb' = "write_hello"
      BY <1>5, <2>3, <3>2, ExchangeSteps, AfterSteps DEF usb_done, Expected, Failure
    <3> QED
      BY <1>1, <1>3, <2>3, <3>3 DEF ExchangeInv, HostHolds
  <2>4. CASE usb = "write_hello" /\ usb' \notin {"wait", "failed"}
    <3>1. usb' = "read_hello" /\ received' = <<>>
      BY <1>5, <2>4, ExchangeSteps, AfterSteps DEF usb_done, Failure
    <3>2. Magics(<<>>) /\ received' # <<HOSTFS_MAGIC, HELLO, CAP_CONTEXT>>
      BY <3>1 DEF Magics
    <3>3. Answered
      BY <2>1, <2>4 DEF ExchangeInv
    <3>4. ~g_handshake_complete
      BY <3>3 DEF Answered
    <3> QED
      BY <1>1, <1>3, <3>1, <3>2, <3>3, <3>4 DEF ExchangeInv, HostHolds, Answered
  <2>5. CASE usb = "read_hello" /\ usb' \notin {"wait", "failed"}
    <3>1. CASE Len(received) < 3
      <4>1. usb' = usb /\ received' = received
        BY <1>5, <2>5, <3>1, ExchangeSteps DEF usb_done, Expected, Failure
      <4>2. received # <<HOSTFS_MAGIC, HELLO, CAP_CONTEXT>>
        BY <3>1
      <4> QED
        BY <1>1, <1>3, <2>5, <4>1, <4>2 DEF ExchangeInv, HostHolds
    <3>2. CASE ~(Len(received) < 3)
      <4>1. /\ usb' = IF received[3] # CAP_CONTEXT THEN "arm" ELSE "write_context"
            /\ received[2] = HELLO
        BY <1>5, <2>5, <3>2, ExchangeSteps, AfterSteps DEF usb_done, Expected, Valid, Failure
      <4>2. received \in Seq(HostWords) /\ received # <<>> /\ Len(received) > 1
        BY <3>2 DEF ReadSome
      <4>3. ~Magics(received)
        BY <4>1, <4>2 DEF Magics, HELLO, HOSTFS_MAGIC
      <4>4. /\ received = <<HOSTFS_MAGIC, HELLO, CAP_CONTEXT>>
            /\ g_handshake_complete \/ Lost
        BY <2>1, <2>5, <4>3 DEF ExchangeInv
      <4>5. usb' = "write_context"
        BY <4>1, <4>4
      <4>6. g_handshake_complete' \/ Lost'
        BY <1>1, <4>4 DEF HostHolds
      <4>7. g_usb_ready' => Agreed'
        BY <1>1 DEF ExchangeInv, HostHolds
      <4> QED
        BY <1>1, <1>3, <4>5, <4>6, <4>7 DEF ExchangeInv
    <3> QED
      BY <3>1, <3>2
  <2>6. CASE usb = "write_context" /\ usb' \notin {"wait", "failed"}
    <3>1. usb' = "read_context"
      BY <1>5, <2>6, ExchangeSteps, AfterSteps DEF usb_done, Failure
    <3> QED
      BY <1>1, <1>3, <2>1, <2>6, <3>1 DEF ExchangeInv, HostHolds
  <2>7. CASE usb = "read_context" /\ usb' \notin {"wait", "failed"}
    <3>1. usb' \in {"read_context", "arm"}
      BY <1>5, <2>7, ExchangeSteps, AfterSteps DEF usb_done, Failure
    <3> QED
      BY <1>1, <1>3, <2>7, <3>1 DEF ExchangeInv, HostHolds
  <2> QED
    BY <1>2, <2>2, <2>3, <2>4, <2>5, <2>6, <2>7
<1> QED
  BY <1>4, <1>5

LEMMA ExchangeEnds ==
  ASSUME ExchangeInv, UNCHANGED <<hostVars, psp_pops>>, usb_arm \/ usb_ready
  PROVE  ExchangeInv'
<1>1. HostHolds /\ attached' = attached /\ usb' \in {"ready", "connect"}
  BY IdleHostHolds DEF hostVars, usb_arm, usb_ready
<1>2. usb \in {"arm", "ready"} /\ (AttachPending' => AttachPending)
  BY DEF usb_arm, usb_ready, set_async_req, AttachPending, Handling
<1> QED
  BY <1>1, <1>2 DEF ExchangeInv, HostHolds

LEMMA ThreadExchange ==
  ASSUME DeviceInv, ReadSome, ExchangeInv, UNCHANGED <<hostVars, psp_pops>>, usb_thread
  PROVE  ExchangeInv'
<1>1. CASE usb_done /\ ~attached
  BY <1>1 DEF usb_done, ExchangeInv
<1> QED
  BY <1>1, ThreadOutside, AttachBegins, RequestMade, RequestDone, ExchangeEnds
     DEF usb_thread

\* The host takes the PSP's command: the hello's answer or the context's is
\* under way before the PSP goes on.
LEMMA InExchange ==
  ASSUME HostInv, DeviceInv, ExchangeInv, In
  PROVE  ExchangeInv'
<1>1. /\ attached /\ attached' /\ bulk.dir = "in" /\ ~g_trans_event /\ ~Served /\ Served'
      /\ UNCHANGED <<usb, received, g_usb_ready, g_main_event, result, psp_pops>>
  <2>1. /\ bulkin_done /\ attached /\ bulk.dir = "in" /\ ~g_trans_event
        /\ psp_pops' = psp_pops
    BY DEF In, TakesIn, busVars
  <2>2. bulk' = [bulk EXCEPT !.ok = TRUE] /\ g_trans_event' = TRUE
    BY <2>1 DEF bulkin_done
  <2>3. bulk'.dir = "in" /\ bulk'.ok = TRUE
    BY <2>1, <2>2 DEF DeviceInv, DeviceOK
  <2> QED
    BY <2>1, <2>2, <2>3 DEF bulkin_done, threadVars, Served
<1>2. usb \in {"write_hello", "write_context"} /\ ~AttachPending /\ ~AttachPending'
  BY <1>1 DEF DeviceInv, Requests, AttachPending, Handling
<1>3. PICK words : words = PspWords
  OBVIOUS
<1>4. hello_read(TRUE, words) \/ context_read(TRUE, words)
  BY <1>3, CommandReads DEF In
<1>5. CASE hello_read(TRUE, words)
  <2>1. /\ in_ep = "hello" /\ in_ep' = "none" /\ ~g_handshake_complete
        /\ g_handshake_complete' = g_handshake_complete
    BY <1>5 DEF hello_read, HostInv, InPhase
  <2>2. usb = "write_hello" /\ ~g_usb_ready
    BY <1>1, <1>2, <2>1 DEF ExchangeInv, Lost, Agreed
  <2>3. Answered'
    BY <2>1 DEF Answered
  <2> QED
    BY <1>1, <1>2, <2>2, <2>3 DEF ExchangeInv
<1>6. CASE context_read(TRUE, words)
  <2>1. /\ in_ep = "context" /\ g_handshake_complete
        /\ g_handshake_complete' = g_handshake_complete
    BY <1>6 DEF context_read, HostInv, InPhase, handshakeVars
  <2>2. usb = "write_context"
    BY <1>1, <1>2, <2>1 DEF ExchangeInv, Waits
  <2>3. words = <<HOSTFS_MAGIC, CONTEXT, psp_pops>>
    BY <1>3, <2>2 DEF PspWords
  <2>4. pops_context' = psp_pops
    BY <1>6, <2>3 DEF context_read, HOSTFS_MAGIC, RJM_HOSTFS_MAGIC, CONTEXT,
                      RJM_HOSTFS_CMD_CONTEXT
  <2>5. Agreed'
    BY <1>1, <2>1, <2>4 DEF Agreed
  <2> QED
    BY <1>1, <1>2, <2>2, <2>5 DEF ExchangeInv
<1> QED
  BY <1>4, <1>5, <1>6

\* The PSP has the host's words, whether or not the host knows it: the answer
\* to the hello reaches only a PSP that has asked, and its first read.
LEMMA OutExchange ==
  ASSUME HostInv, DeviceInv, ReadSome, ExchangeInv, TakesOut, bulkout_done(CommandWords),
         NEW success \in BOOLEAN, CommandSent(success), psp_pops' = psp_pops
  PROVE  ExchangeInv'
<1>1. PICK words : words = CommandWords
  OBVIOUS
<1>2. /\ attached /\ attached' /\ bulk.dir = "out" /\ ~g_trans_event /\ ~Served /\ Served'
      /\ UNCHANGED <<usb, g_usb_ready, g_main_event, result>>
      /\ received' = received \o words /\ cmd_ep # Free
  <2>1. bulk' = [bulk EXCEPT !.ok = TRUE] /\ g_trans_event' = TRUE /\ bulk.dir = "out"
    BY DEF bulkout_done
  <2>2. bulk'.dir = "out" /\ bulk'.ok = TRUE
    BY <2>1 DEF DeviceInv, DeviceOK
  <2> QED
    BY <1>1, <2>1, <2>2 DEF TakesOut, bulkout_done, Served
<1>3. /\ usb \in {"read_magic", "read_hello", "read_context"}
      /\ ~AttachPending /\ ~AttachPending'
  BY <1>2, ExchangeSteps DEF DeviceInv, Requests, AttachPending, Handling
<1>4. /\ \/ cmd_ep.by = "magic" /\ words = <<HOSTFS_MAGIC>>
         \/ cmd_ep.by = "hello" /\ words = <<HOSTFS_MAGIC, HELLO, CAP_CONTEXT>>
         \/ cmd_ep.by = "context"
      /\ words \in Seq(HostWords) /\ Len(words) >= 1
  BY <1>1, <1>2, CommandIsWords
<1>5. received \in Seq(HostWords)
  BY DEF ReadSome
<1>6. magic_sent(success) \/ hello_response_sent(success) \/ context_response_sent
  BY CommandsSent
<1>7. cmd_ep' = Free /\ cmd_ep'.by = "none"
  BY <1>6 DEF magic_sent, hello_response_sent, context_response_sent, Free
<1>8. CASE cmd_ep.by = "magic"
  <2>1. /\ ~g_handshake_complete /\ g_handshake_complete' = g_handshake_complete
    BY <1>6, <1>8 DEF magic_sent, hello_response_sent, context_response_sent,
       HostInv,
                      InPhase
  <2>2. Waits' /\ ~g_usb_ready
    BY <1>2, <1>7, <2>1 DEF Waits, ExchangeInv, Agreed
  <2>3. CASE usb = "read_magic"
    BY <1>2, <1>3, <2>2, <2>3 DEF ExchangeInv
  <2>4. CASE usb = "read_hello"
    <3>1. Magics(received) /\ words = <<HOSTFS_MAGIC>>
      BY <1>2, <1>4, <1>8, <2>4 DEF ExchangeInv
    <3>2. Magics(received') /\ received' # <<>>
      BY <1>2, <1>4, <1>5, <3>1, MoreWords
    <3>3. received' # <<HOSTFS_MAGIC, HELLO, CAP_CONTEXT>>
      BY <3>2 DEF Magics, HELLO, HOSTFS_MAGIC
    <3> QED
      BY <1>2, <1>3, <2>1, <2>2, <2>4, <3>2, <3>3 DEF ExchangeInv
  <2>5. CASE usb = "read_context"
    BY <1>2, <2>1, <2>5 DEF ExchangeInv, Agreed
  <2> QED
    BY <1>3, <2>3, <2>4, <2>5
<1>9. CASE cmd_ep.by = "hello"
  <2>1. ~g_handshake_complete
    BY <1>9 DEF HostInv, InPhase
  <2>2. usb = "read_hello" /\ ~g_usb_ready
    BY <1>2, <1>3, <1>9, <2>1 DEF ExchangeInv, Waits, Agreed
  <2>3. received = <<>> /\ in_ep = "none"
    BY <1>2, <1>9, <2>2 DEF ExchangeInv, Waits, Answered
  <2>4. received' = <<HOSTFS_MAGIC, HELLO, CAP_CONTEXT>>
    BY <1>2, <1>4, <1>5, <1>9, <2>3, MoreWords
  <2>5. g_handshake_complete' \/ Lost'
    BY <1>6, <1>7, <1>9, <2>1, <2>3
       DEF magic_sent, hello_response_sent, context_response_sent, Lost, Waits
  <2> QED
    BY <1>2, <1>3, <2>2, <2>4, <2>5 DEF ExchangeInv
<1>10. CASE cmd_ep.by = "context"
  <2>1. g_handshake_complete /\ UNCHANGED <<g_handshake_complete, pops_context>>
    BY <1>6, <1>10 DEF magic_sent, hello_response_sent, context_response_sent,
       HostInv,
                       InPhase, handshakeVars
  <2>2. usb = "read_context"
    BY <1>2, <1>3, <2>1 DEF ExchangeInv, Waits
  <2>3. Agreed => Agreed'
    BY <2>1 DEF Agreed
  <2> QED
    BY <1>2, <1>3, <2>2, <2>3 DEF ExchangeInv
<1> QED
  BY <1>4, <1>8, <1>9, <1>10

LEMMA AttachExchange ==
  ASSUME HostInv, DeviceInv, Attach
  PROVE  ExchangeInv'
<1>1. usb = "wait" /\ ~g_usb_ready /\ UNCHANGED <<usb, g_usb_ready, hostVars>>
  BY AttachFindsNothing DEF Attach, usb_attach, threadVars
<1>2. Lost /\ Lost'
  BY <1>1 DEF Attach, Mounted, HostInv, NotBegun, Lost, Waits, Free, hostVars,
     handshakeVars
<1> QED
  BY <1>1, <1>2 DEF ExchangeInv

LEMMA OthersExchange ==
  ASSUME ExchangeInv, UNCHANGED <<hostVars, psp_pops>>, main_thread \/ power_callback
  PROVE  ExchangeInv'
<1>1. HostHolds
  BY IdleHostHolds DEF hostVars
<1>2. CASE main_thread
  <2>1. /\ UNCHANGED <<usb, bulk, g_trans_event, received, attached, g_usb_ready>>
        /\ UNCHANGED AttachPending
    BY <1>2 DEF main_thread, main_reset, main_flush, rjmUsbWaitForConnect,
       main_connected, rjmUsbIsConnected, main_read_wait, rjmUsbAsyncRead,
     main_handle_joyevent,
       threadVars, requestVars, AttachPending
  <2> QED
    BY <1>1, <2>1, ExchangeGoesOn
<1>3. CASE power_deactivate /\ attached
  BY <1>3 DEF power_deactivate, Detach, ExchangeInv
<1>4. CASE power_suspend \/ power_set_detach \/ power_flush \/ (power_deactivate /\ ~attached)
  <2>1. /\ UNCHANGED <<usb, bulk, g_trans_event, received, attached>>
        /\ (g_usb_ready' => g_usb_ready) /\ (AttachPending' => AttachPending)
    BY <1>4 DEF power_suspend, power_set_detach, power_flush, power_deactivate,
       threadVars, requestVars, AttachPending
  <2> QED
    BY <1>1, <2>1, ExchangeGoesOn
<1> QED
  BY <1>2, <1>3, <1>4 DEF power_callback

\* The PSP's state does not move, but for an event that arrives.
LEMMA HostAlone ==
  ASSUME ExchangeInv, HostHolds, UNCHANGED deviceVars \/ async_done(session)
  PROVE  ExchangeInv'
<1>1. /\ UNCHANGED <<usb, bulk, g_trans_event, received, attached, g_usb_ready>>
      /\ AttachPending' => AttachPending
  BY DEF deviceVars, async_done, threadVars, AttachPending
<1> QED
  BY <1>1, ExchangeGoesOn

LEMMA ExchangeKept ==
  ASSUME IInv, [Next]_vars
  PROVE  ExchangeInv'
<1>1. HostInv /\ DeviceInv /\ ReadSome /\ ExchangeInv
  BY DEF IInv
<1>2. CASE Attach
  BY <1>1, <1>2, AttachExchange
<1>3. CASE Psp
  <2>1. UNCHANGED <<hostVars, psp_pops>> /\ (usb_thread \/ main_thread \/ power_callback)
    BY <1>3 DEF Psp, busVars
  <2> QED
    BY <1>1, <2>1, ThreadExchange, OthersExchange
<1>4. CASE Unplug \/ Unmount
  BY <1>4 DEF Unplug, usb_detach, Detach, Unmount, deviceVars, ExchangeInv
<1>5. CASE In
  BY <1>1, <1>5, InExchange
<1>6. CASE Out
  BY <1>1, <1>6, OutExchange DEF Out, busVars
<1>7. ASSUME NEW delivered \in BOOLEAN, OutFails(delivered)
      PROVE  ExchangeInv'
  <2>1. CommandSent(FALSE) /\ psp_pops' = psp_pops
    BY <1>7 DEF OutFails, MayFail
  <2>2. CASE delivered
    <3>1. TakesOut /\ bulkout_done(CommandWords)
      BY <1>7, <2>2 DEF OutFails
    <3> QED
      BY <1>1, <2>1, <3>1, OutExchange
  <2>3. CASE ~delivered
    <3>1. UNCHANGED deviceVars
      BY <1>7, <2>3 DEF OutFails
    <3> QED
      BY <1>1, <2>1, <3>1, FailedCommandHolds, HostAlone
  <2> QED
    BY <2>2, <2>3
<1>8. CASE SendEvent \/ EventArrives \/ \E delivered \in BOOLEAN : EventFails(delivered)
  <2>1. /\ process_queue \/ event_sent
        /\ psp_pops' = psp_pops
        /\ UNCHANGED deviceVars \/ async_done(session)
    BY <1>8, EventsSame DEF SendEvent, EventArrives, EventFails, MayFail, busVars
  <2> QED
    BY <1>1, <2>1, EventsHold, HostAlone
<1>9. CASE Mount
  BY <1>1, <1>9, MountHolds, HostAlone DEF Mount
<1>10. CASE Timeout
  BY <1>1, <1>10, TimeoutHolds, HostAlone DEF Timeout
<1>11. CASE InFails
  BY <1>1, <1>11, FailedReadHolds, HostAlone DEF InFails
<1>12. ASSUME NEW success \in BOOLEAN, Enumerate(success)
       PROVE  ExchangeInv'
  BY <1>1, <1>12, EnumeratingHolds, HostAlone DEF Enumerate
<1>13. CASE UNCHANGED vars
  <2>1. UNCHANGED deviceVars /\ HostHolds
    BY <1>13, IdleHostHolds DEF vars, hostVars, busVars
  <2> QED
    BY <1>1, <2>1, HostAlone
<1> QED
  BY <1>2, <1>3, <1>4, <1>5, <1>6, <1>7, <1>8, <1>9, <1>10, <1>11, <1>12, <1>13
     DEF Next, Bus

LEMMA LinkBegins ==
  ASSUME Init
  PROVE  IInv
<1>1. HostInv /\ DeviceInv
  BY HostBegins, DeviceBegins
<1>2. ReadSome
  BY Rings DEF Init, DeviceInit, ReadSome, Served, NoRequest
<1>3. ExchangeInv
  BY DEF Init, DeviceInit, ExchangeInv
<1> QED
  BY <1>1, <1>2, <1>3 DEF IInv

\* The senders' handshake, the PSP's threads and interrupts, the rings that have
\* a reader and the exchange keep one inductive invariant over every
\* interleaving, failed transfer and unplugging (psp_host.c,
\* standalone_usbhost.c and remotejoy_minus.c).
THEOREM LinkInvariant == Spec => []IInv
<1>1. Init => IInv
  BY LinkBegins
<1>2. IInv /\ [Next]_vars => IInv'
  BY HostKept, DeviceKept, ReadKept, ExchangeKept DEF IInv
<1> QED
  BY <1>1, <1>2, PTL DEF Spec

\* When the PSP takes events the sender knows that the link is up and in which
\* context the PSP runs, and the PSP is never left without a request for the
\* next event (the exchange of usb_thread against the completions of
\* psp_host.c and standalone_usbhost.c, their timeouts and their failures).
THEOREM BothEndsAgree == Spec => []ReadyAgreement
<1>1. IInv => ReadyAgreement
  <2>1. DeviceInv /\ ExchangeInv =>
          (g_usb_ready /\ attached => Agreed /\
             (usb = "wait" /\ "async" \notin g_main_event => async_armed))
    BY DEF DeviceInv, Armed, ExchangeInv
  <2> QED
    BY <2>1 DEF IInv, Agreed, ReadyAgreement
<1> QED
  BY <1>1, LinkInvariant, PTL

=============================================================================
