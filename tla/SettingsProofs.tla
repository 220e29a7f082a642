--------------------------- MODULE SettingsProofs ---------------------------
(***************************************************************************)
(* Theorems about the settings of a test: the server runs the test the     *)
(* client asked for, and both know who reports retransmissions, for every  *)
(* length of the command line and every number of clients before.          *)
(***************************************************************************)
EXTENDS Settings, TLAPS

Fields == DOMAIN iperf_defaults

\* A value of struct iperf_test: all fields are there, each of its type.
IsStruct(t) == t = [f \in Fields |-> t[f]]

Typed(t) ==
  /\ t.role \in {"none", "c", "s"} /\ t.protocol \in {"tcp", "udp"} /\ t.mode \in Modes
  /\ \A f \in Numbers : t[f] \in 0 .. 3
  /\ \A f \in LimitedFields \ {"socket_bufsize"} : t[f] # 2

Retransmits(t) == t.sender_has_retransmits = 1 <=> t.mode # "RECEIVER" /\ t.protocol = "tcp"

\* What the options keep up of a client: the mode is that of the direction, and the
\* flag for retransmissions that of mode and protocol.  --bidir does not update the
\* flag, and -c, behind it, takes back the mode but not the setting.
Directed(t) ==
  /\ t.reverse \in {0, 1} /\ t.bidirectional \in {0, 1}
  /\ ~(t.reverse = 1 /\ t.bidirectional = 1)
  /\ t.mode = "BIDIRECTIONAL" => t.bidirectional = 1
  /\ t.role = "c" =>
       /\ t.mode # "BIDIRECTIONAL" => t.mode = IF t.reverse = 0 THEN "SENDER" ELSE "RECEIVER"
       /\ Retransmits(t)

Good(t) == IsStruct(t) /\ Typed(t) /\ Directed(t)

\* What iperf_reset_test puts back.
Reset == ResetFields \cup {"mode", "protocol", "sender_has_retransmits"}
Clean(t) == \A f \in Reset : t[f] = iperf_defaults[f]

Flags == [server : BOOLEAN, client : BOOLEAN, rate : BOOLEAN, duration : BOOLEAN,
          blksize : 0 .. 4]

SettingsInv ==
  /\ flags \in Flags
  /\ phase \in {"options", "connected", "running", "streaming"}
  /\ Good(test)
  /\ IsStruct(server) /\ Typed(server) /\ server.role = "s"
  /\ phase # "options" => test.role = "c"
  /\ phase = "connected" => test.blksize # 0
  /\ phase \in {"options", "connected"} => Clean(server)
  /\ phase = "running" =>
       /\ \A f \in ResetFields \cup {"protocol"} : server[f] = test[f]
       /\ server.mode = IF test.bidirectional = 1 THEN "BIDIRECTIONAL"
                        ELSE IF test.reverse = 1 THEN "SENDER" ELSE "RECEIVER"
       /\ Retransmits(server)
-----------------------------------------------------------------------------
(* The struct.                                                             *)

\* The names of the fields, spelled out.
LEMMA FieldNames ==
  Fields = {"role", "protocol", "mode", "sender_has_retransmits", "reverse", "bidirectional",
            "omit", "duration", "bytes", "blocks", "num_streams", "blksize", "rate", "burst",
            "mss", "no_delay", "socket_bufsize", "tos", "pacing_timer", "title", "extra_data",
            "get_server_output", "udp_counters_64bit", "repeating_payload"}
BY DEF Fields, iperf_defaults

\* An assignment to one field changes that field only.
LEMMA Assign ==
  ASSUME NEW t, IsStruct(t), NEW f \in Fields, NEW v
  PROVE  /\ IsStruct([t EXCEPT ![f] = v])
         /\ [t EXCEPT ![f] = v][f] = v
         /\ \A g \in Fields \ {f} : [t EXCEPT ![f] = v][g] = t[g]
BY DEF IsStruct

\* The defaults are of the right types.
LEMMA Defaults ==
  IsStruct(iperf_defaults) /\ Typed(iperf_defaults) /\ Directed(iperf_defaults)
    /\ iperf_defaults.role = "none" /\ Clean(iperf_defaults)
<1>1. IsStruct(iperf_defaults)
  BY DEF IsStruct, Fields, iperf_defaults
<1>2. Typed(iperf_defaults)
  BY DEF Typed, Numbers, LimitedFields, Modes, iperf_defaults, DURATION, DEFAULT_TCP_BLKSIZE
<1>3. Directed(iperf_defaults)
  BY DEF Directed, iperf_defaults
<1> QED BY <1>1, <1>2, <1>3 DEF Clean, iperf_defaults

\* check_sender_has_retransmits sets the flag right and nothing else.
LEMMA CheckRetransmits ==
  ASSUME NEW t, IsStruct(t), Typed(t),
         NEW u, u = check_sender_has_retransmits(t)
  PROVE  /\ IsStruct(u) /\ Typed(u) /\ Retransmits(u)
         /\ \A g \in Fields \ {"sender_has_retransmits"} : u[g] = t[g]
<1> DEFINE v == IF t.mode # "RECEIVER" /\ t.protocol = "tcp" THEN 1 ELSE 0
<1>1. u = [t EXCEPT !["sender_has_retransmits"] = v] /\ v \in {0, 1}
  BY DEF check_sender_has_retransmits
<1>2. /\ IsStruct(u) /\ u.sender_has_retransmits = v
      /\ \A g \in Fields \ {"sender_has_retransmits"} : u[g] = t[g]
  <2> HIDE DEF v
  <2>1. "sender_has_retransmits" \in Fields
    BY FieldNames
  <2> QED BY <1>1, <2>1 DEF IsStruct
<1>3. Typed(u)
  <2> HIDE DEF v
  <2> QED BY <1>1, <1>2, FieldNames DEF Typed, Numbers, LimitedFields, Fields
<1>4. Retransmits(u)
  BY <1>2, FieldNames DEF Retransmits
<1> QED BY <1>2, <1>3, <1>4

\* The mode follows from role and direction once the role is known.
LEMMA ModeFollows ==
  ASSUME NEW t, t.role \in {"c", "s"}, t.reverse \in {0, 1}
  PROVE  /\ t.role = "c" => ModeOf(t) = IF t.reverse = 0 THEN "SENDER" ELSE "RECEIVER"
         /\ t.role = "s" => ModeOf(t) = IF t.reverse = 0 THEN "RECEIVER" ELSE "SENDER"
BY DEF ModeOf

\* -c and -s.
LEMMA SetRole ==
  ASSUME NEW t, Good(t), NEW role \in {"c", "s"},
         NEW u, u = iperf_set_test_role(t, role)
  PROVE  /\ Good(u) /\ u.role = role /\ Retransmits(u)
         /\ u.mode = ModeOf(u)
         /\ \A g \in Fields \ {"role", "mode", "sender_has_retransmits"} : u[g] = t[g]
<1> DEFINE r == [t EXCEPT !["role"] = role]
           m == [r EXCEPT !["mode"] = ModeOf(r)]
<1>1. u = check_sender_has_retransmits(m)
  BY ZenonT(60) DEF iperf_set_test_role
<1>2. /\ IsStruct(r) /\ r.role = role
      /\ \A g \in Fields \ {"role"} : r[g] = t[g]
  BY Assign, FieldNames DEF Good
<1> HIDE DEF r
<1>3. /\ IsStruct(m) /\ m.mode = ModeOf(r)
      /\ \A g \in Fields \ {"mode"} : m[g] = r[g]
  BY <1>2, Assign, FieldNames
<1> HIDE DEF m
<1>4. /\ r.reverse \in {0, 1}
      /\ ModeOf(r) \in {"SENDER", "RECEIVER"}
  BY <1>2, ModeFollows, FieldNames DEF Good, Directed
<1>5. Typed(m)
  BY <1>2, <1>3, <1>4, FieldNames DEF Good, Typed, Modes, Numbers, LimitedFields, Fields
<1>6. /\ IsStruct(u) /\ Typed(u) /\ Retransmits(u)
      /\ \A g \in Fields \ {"sender_has_retransmits"} : u[g] = m[g]
  BY <1>1, <1>3, <1>5, CheckRetransmits
<1>7. /\ u.role = role /\ u.mode = ModeOf(r) /\ u.reverse = r.reverse
      /\ \A g \in Fields \ {"role", "mode", "sender_has_retransmits"} : u[g] = t[g]
  BY <1>2, <1>3, <1>6, FieldNames
<1>8. u.mode = ModeOf(u)
  BY <1>2, <1>4, <1>7, ModeFollows
<1>9. Directed(u)
  BY <1>4, <1>6, <1>7, <1>8, ModeFollows, FieldNames DEF Good, Directed
<1> QED BY <1>6, <1>7, <1>8, <1>9 DEF Good

\* -R, and "reverse" in the message.
LEMMA SetReverse ==
  ASSUME NEW t, Good(t), t.bidirectional = 0,
         NEW u, u = iperf_set_test_reverse(t)
  PROVE  /\ Good(u) /\ u.reverse = 1 /\ Retransmits(u)
         /\ t.role = "s" => u.mode = "SENDER"
         /\ \A g \in Fields \ {"reverse", "mode", "sender_has_retransmits"} : u[g] = t[g]
<1> DEFINE r == [t EXCEPT !["reverse"] = 1]
           m == [r EXCEPT !["mode"] = ModeOf(r)]
<1>1. u = check_sender_has_retransmits(m)
  BY ZenonT(60) DEF iperf_set_test_reverse
<1>2. /\ IsStruct(r) /\ r.reverse = 1
      /\ \A g \in Fields \ {"reverse"} : r[g] = t[g]
  BY Assign, FieldNames DEF Good
<1> HIDE DEF r
<1>3. /\ IsStruct(m) /\ m.mode = ModeOf(r)
      /\ \A g \in Fields \ {"mode"} : m[g] = r[g]
  BY <1>2, Assign, FieldNames, SMTT(30)
<1> HIDE DEF m
<1>4. /\ r.role = "none" => ModeOf(r) = t.mode
      /\ r.role = "c" => ModeOf(r) = "RECEIVER"
      /\ r.role = "s" => ModeOf(r) = "SENDER"
      /\ r.role = t.role /\ r.role \in {"none", "c", "s"}
  BY <1>2, ModeFollows, FieldNames DEF Good, Typed, ModeOf
<1>5. ModeOf(r) \in Modes /\ ModeOf(r) # "BIDIRECTIONAL"
  BY <1>4 DEF Good, Typed, Directed, Modes
<1>6. Typed(m)
  BY <1>2, <1>3, <1>5, FieldNames DEF Good, Typed, Numbers, LimitedFields, Fields
<1>7. /\ IsStruct(u) /\ Typed(u) /\ Retransmits(u)
      /\ \A g \in Fields \ {"sender_has_retransmits"} : u[g] = m[g]
  BY <1>1, <1>3, <1>6, CheckRetransmits
<1>8. /\ u.role = t.role /\ u.mode = ModeOf(r) /\ u.reverse = 1
      /\ \A g \in Fields \ {"reverse", "mode", "sender_has_retransmits"} : u[g] = t[g]
  BY <1>2, <1>3, <1>7, FieldNames
<1>9. Directed(u)
  BY <1>4, <1>5, <1>7, <1>8, FieldNames DEF Good, Directed
<1> QED BY <1>4, <1>7, <1>8, <1>9 DEF Good

\* --bidir, and "bidirectional" in the message.
LEMMA SetBidirectional ==
  ASSUME NEW t, Good(t), t.reverse = 0,
         NEW u, u = iperf_set_test_bidirectional(t)
  PROVE  /\ Good(u) /\ u.mode = "BIDIRECTIONAL" /\ u.bidirectional = 1
         /\ \A g \in Fields \ {"bidirectional", "mode"} : u[g] = t[g]
<1> DEFINE b == [t EXCEPT !["bidirectional"] = 1]
<1>1. u = [b EXCEPT !["mode"] = "BIDIRECTIONAL"]
  BY ZenonT(60) DEF iperf_set_test_bidirectional
<1>2. /\ IsStruct(b) /\ b.bidirectional = 1
      /\ \A g \in Fields \ {"bidirectional"} : b[g] = t[g]
  BY Assign, FieldNames DEF Good
<1> HIDE DEF b
<1>3. /\ IsStruct(u) /\ u.mode = "BIDIRECTIONAL"
      /\ \A g \in Fields \ {"mode"} : u[g] = b[g]
  <2>1. "mode" \in Fields
    BY FieldNames
  <2> QED BY <1>1, <1>2, <2>1 DEF IsStruct
<1>4. /\ u.bidirectional = 1
      /\ \A g \in Fields \ {"bidirectional", "mode"} : u[g] = t[g]
  BY <1>2, <1>3, FieldNames
<1>5. Typed(u)
  BY <1>3, <1>4, FieldNames DEF Good, Typed, Modes, Numbers, LimitedFields, Fields
<1>6. Directed(u)
  BY <1>3, <1>4, FieldNames DEF Good, Directed, Retransmits
<1> QED BY <1>3, <1>4, <1>5, <1>6 DEF Good

\* -u, and "protocol" in the message.
LEMMA SetProtocol ==
  ASSUME NEW t, Good(t), NEW prot \in {"tcp", "udp"},
         NEW u, u = set_protocol(t, prot)
  PROVE  /\ Good(u) /\ u.protocol = prot /\ Retransmits(u)
         /\ \A g \in Fields \ {"protocol", "sender_has_retransmits"} : u[g] = t[g]
<1> DEFINE p == [t EXCEPT !["protocol"] = prot]
<1>1. u = check_sender_has_retransmits(p)
  BY DEF set_protocol
<1>2. /\ IsStruct(p) /\ p.protocol = prot
      /\ \A g \in Fields \ {"protocol"} : p[g] = t[g]
  BY Assign, FieldNames DEF Good
<1> HIDE DEF p
<1>3. Typed(p)
  BY <1>2, FieldNames DEF Good, Typed, Numbers, LimitedFields, Fields
<1>4. /\ IsStruct(u) /\ Typed(u) /\ Retransmits(u)
      /\ \A g \in Fields \ {"sender_has_retransmits"} : u[g] = p[g]
  BY <1>1, <1>2, <1>3, CheckRetransmits
<1>5. /\ u.protocol = prot
      /\ \A g \in Fields \ {"protocol", "sender_has_retransmits"} : u[g] = t[g]
  BY <1>2, <1>4, FieldNames
<1>6. Directed(u)
  BY <1>4, <1>5, FieldNames DEF Good, Directed
<1> QED BY <1>4, <1>5, <1>6 DEF Good

\* The options that set a field on which neither mode nor flag depends.
Plain == Numbers \ {"reverse", "bidirectional", "sender_has_retransmits"}

Put(t, f, v) == [t EXCEPT ![f] = v]

\* Such an option keeps the struct as it should be.
LEMMA SetPlain ==
  ASSUME NEW t, Good(t), NEW f \in Plain, NEW v \in 0 .. 3,
         f \in LimitedFields \ {"socket_bufsize"} => v # 2
  PROVE  Good(Put(t, f, v))
<1> DEFINE u == [t EXCEPT ![f] = v]
<1>1. f \in Fields
  BY DEF Plain, Numbers, Fields
<1>2. /\ IsStruct(u) /\ u[f] = v
      /\ \A g \in Fields \ {f} : u[g] = t[g]
  BY <1>1, Assign DEF Good
<1> HIDE DEF u
<1>3. \A g \in {"role", "protocol", "mode", "reverse", "bidirectional",
               "sender_has_retransmits"} : u[g] = t[g]
  BY <1>2, FieldNames DEF Plain, Numbers
<1>4. Typed(u)
  BY <1>2, <1>3, FieldNames DEF Good, Typed, Numbers, LimitedFields, Fields
<1>5. Directed(u)
  BY <1>3 DEF Good, Directed, Retransmits
<1> QED BY <1>2, <1>4, <1>5 DEF Good, u, Put
-----------------------------------------------------------------------------
(* The message.                                                            *)

\* get_parameters at a server that was reset, for a client that has chosen a block
\* size: the server gets the client's settings, the opposite mode, and the flag for
\* retransmissions of its own mode.
LEMMA Parameters ==
  ASSUME NEW s, Good(s), Clean(s), s.role = "s",
         NEW t, Good(t), t.blksize # 0,
         NEW u, u = get_parameters(s, send_parameters(t))
  PROVE  /\ IsStruct(u) /\ Typed(u) /\ u.role = "s"
         /\ \A f \in ResetFields \cup {"protocol"} : u[f] = t[f]
         /\ u.mode = IF t.bidirectional = 1 THEN "BIDIRECTIONAL"
                     ELSE IF t.reverse = 1 THEN "SENDER" ELSE "RECEIVER"
         /\ Retransmits(u)
<1> DEFINE j == send_parameters(t)
           p == set_protocol(s, j.protocol)
           r == IF "reverse" \in DOMAIN j THEN iperf_set_test_reverse(p) ELSE p
           b == IF "bidirectional" \in DOMAIN j THEN iperf_set_test_bidirectional(r) ELSE r
           w == Received(b, j)
<1>1. /\ DOMAIN j = Always \cup {g \in IfSet : t[g] # 0}
      /\ \A f \in DOMAIN j : j[f] = t[f]
      /\ "protocol" \in DOMAIN j
      /\ "reverse" \in DOMAIN j <=> t.reverse = 1
      /\ "bidirectional" \in DOMAIN j <=> t.bidirectional = 1
  BY DEF send_parameters, Always, IfSet, Good, Directed
<1>2. u = IF w.mode # "RECEIVER" /\ w.protocol = "tcp"
          THEN [w EXCEPT !["sender_has_retransmits"] = 1] ELSE w
  BY SMTT(30) DEF get_parameters, WithMode
<1> HIDE DEF j
<1>3. /\ s.mode = "RECEIVER" /\ s.reverse = 0 /\ s.bidirectional = 0
      /\ j.protocol = t.protocol /\ t.protocol \in {"tcp", "udp"}
  BY <1>1 DEF Clean, Reset, ResetFields, iperf_defaults, Good, Typed
<1>4. /\ Good(p) /\ p.protocol = t.protocol /\ Retransmits(p)
      /\ \A g \in Fields \ {"protocol", "sender_has_retransmits"} : p[g] = s[g]
  BY <1>3, SetProtocol
<1> HIDE DEF p
<1>5. p.mode = "RECEIVER" /\ p.reverse = 0 /\ p.bidirectional = 0 /\ p.role = "s"
  BY <1>3, <1>4, FieldNames
<1>6. /\ Good(r) /\ Retransmits(r) /\ r.protocol = t.protocol /\ r.role = "s"
      /\ r.mode = IF t.reverse = 1 THEN "SENDER" ELSE "RECEIVER"
      /\ \A g \in Fields \ {"protocol", "reverse", "mode", "sender_has_retransmits"} : r[g] = s[g]
  <2>1. CASE "reverse" \in DOMAIN j
    <3>1. /\ Good(r) /\ Retransmits(r) /\ r.mode = "SENDER"
          /\ \A g \in Fields \ {"reverse", "mode", "sender_has_retransmits"} : r[g] = p[g]
      BY <2>1, <1>4, <1>5, SetReverse
    <3> QED BY <1>1, <1>4, <1>5, <2>1, <3>1, FieldNames
  <2>2. CASE "reverse" \notin DOMAIN j
    BY <1>1, <1>4, <1>5, <2>2, FieldNames, SMTT(30)
  <2> QED BY <2>1, <2>2
<1> HIDE DEF r
<1>7. /\ IsStruct(b) /\ Typed(b) /\ b.protocol = t.protocol /\ b.role = "s"
      /\ b.mode = IF t.bidirectional = 1 THEN "BIDIRECTIONAL"
                  ELSE IF t.reverse = 1 THEN "SENDER" ELSE "RECEIVER"
      /\ b.sender_has_retransmits = r.sender_has_retransmits
      /\ \A g \in Fields \ {"protocol", "reverse", "bidirectional", "mode",
                              "sender_has_retransmits"} : b[g] = s[g]
  <2>1. CASE "bidirectional" \in DOMAIN j
    <3>1. t.bidirectional = 1 /\ t.reverse = 0
      BY <1>1, <2>1 DEF Good, Directed
    <3>2. r.reverse = 0
      BY <1>1, <1>5, <3>1 DEF r
    <3>3. /\ Good(b) /\ b.mode = "BIDIRECTIONAL"
          /\ \A g \in Fields \ {"bidirectional", "mode"} : b[g] = r[g]
      BY <2>1, <1>6, <3>2, SetBidirectional
    <3> QED BY <1>6, <3>1, <3>3, FieldNames DEF Good
  <2>2. CASE "bidirectional" \notin DOMAIN j
    BY <1>1, <1>6, <2>2, FieldNames DEF Good
  <2> QED BY <2>1, <2>2
<1> HIDE DEF b
<1>8. /\ IsStruct(w)
      /\ \A f \in Fields : w[f] = IF f \in DOMAIN j THEN t[f] ELSE b[f]
  <2>1. DOMAIN b = Fields
    BY <1>7, SMTT(30) DEF IsStruct
  <2> QED BY <1>1, <2>1 DEF Received, IsStruct
<1> HIDE DEF w
<1>9. /\ w.role = "s" /\ w.mode = b.mode /\ w.protocol = t.protocol
      /\ w.sender_has_retransmits = r.sender_has_retransmits
  BY <1>1, <1>7, <1>8, FieldNames DEF Always, IfSet
<1>10. \A f \in ResetFields \cup {"protocol"} : w[f] = t[f]
  <2> SUFFICES ASSUME NEW f \in ResetFields \ {"blksize"}, f \notin DOMAIN j
               PROVE  w[f] = t[f]
    BY <1>1, <1>8, <1>9, FieldNames DEF ResetFields, IfSet
  <2>1. f \in IfSet /\ t[f] = 0
    BY <1>1 DEF ResetFields, Always, IfSet
  <2>2. w[f] = b[f]
    BY <1>8, FieldNames DEF ResetFields
  <2>3. CASE f \in {"reverse", "bidirectional"}
    <3>1. r.bidirectional = 0 /\ ("reverse" \notin DOMAIN j => r.reverse = 0)
      BY <1>3, <1>5, <1>6, FieldNames DEF r
    <3>2. /\ "bidirectional" \notin DOMAIN j => b = r
          /\ "bidirectional" \in DOMAIN j => t.reverse = 0
      BY <1>1 DEF b, Good, Directed
    <3>3. "bidirectional" \in DOMAIN j /\ "reverse" \notin DOMAIN j => b.reverse = r.reverse
      BY <3>1, <1>6, SetBidirectional, FieldNames DEF b
    <3> QED BY <2>1, <2>2, <2>3, <1>1, <3>1, <3>2, <3>3
  <2>4. CASE f \notin {"reverse", "bidirectional"}
    <3>1. b[f] = s[f]
      BY <1>7, <2>4, FieldNames, SMTT(30) DEF ResetFields
    <3>2. s[f] = 0
      BY <2>1, <2>4 DEF Clean, Reset, ResetFields, IfSet, iperf_defaults, Always
    <3> QED BY <2>1, <2>2, <3>1, <3>2
  <2> QED BY <2>3, <2>4, SMTT(30)
<1>11. Typed(w)
  <2>1. \A f \in Numbers : w[f] \in 0 .. 3
    BY <1>7, <1>8 DEF Good, Typed, Numbers, Fields
  <2>2. \A f \in LimitedFields \ {"socket_bufsize"} : w[f] # 2
    BY <1>7, <1>8, FieldNames DEF Good, Typed, LimitedFields
  <2> QED BY <2>1, <2>2, <1>3, <1>7, <1>9 DEF Typed, Modes
<1>12. w.mode = "RECEIVER" \/ w.protocol = "udp" => w.sender_has_retransmits # 1
  BY <1>3, <1>6, <1>7, <1>9, SMTT(30) DEF Retransmits
<1>13. CASE w.mode # "RECEIVER" /\ w.protocol = "tcp"
  <2>1. /\ IsStruct(u) /\ u.sender_has_retransmits = 1
        /\ \A g \in Fields \ {"sender_has_retransmits"} : u[g] = w[g]
    <3>1. "sender_has_retransmits" \in Fields
      BY FieldNames
    <3> QED BY <1>2, <1>8, <1>13, <3>1 DEF IsStruct
  <2>2. Typed(u)
    BY <2>1, <1>11, FieldNames DEF Typed, Numbers, LimitedFields, Fields
  <2>3. u.mode = w.mode /\ u.protocol = w.protocol /\ u.role = w.role
    BY <2>1, FieldNames
  <2>4. \A f \in ResetFields \cup {"protocol"} : u[f] = w[f]
    BY <2>1, FieldNames DEF ResetFields
  <2> QED BY <1>7, <1>9, <1>10, <1>13, <2>1, <2>2, <2>3, <2>4 DEF Retransmits
<1>14. CASE ~(w.mode # "RECEIVER" /\ w.protocol = "tcp")
  <2>1. u = w
    BY <1>2, <1>14
  <2>2. Retransmits(w)
    BY <1>3, <1>9, <1>12, <1>14, SMTT(30) DEF Retransmits
  <2> QED BY <1>7, <1>8, <1>9, <1>10, <1>11, <2>1, <2>2
<1> QED BY <1>13, <1>14
-----------------------------------------------------------------------------
(* The steps.                                                              *)

\* At the start the server is as iperf_reset_test leaves it.
LEMMA InitSettings == Init => SettingsInv
<1> SUFFICES ASSUME Init PROVE SettingsInv
  OBVIOUS
<1>1. Good(iperf_defaults)
  BY Defaults DEF Good
<1>2. /\ Good(server) /\ server.role = "s" /\ Retransmits(server)
      /\ server.mode = ModeOf(server)
      /\ \A g \in Fields \ {"role", "mode", "sender_has_retransmits"} : server[g] = iperf_defaults[g]
  BY <1>1, SetRole, SMTT(30) DEF Init
<1>3. server.reverse = 0 /\ iperf_defaults.mode = "RECEIVER" /\ iperf_defaults.sender_has_retransmits = 0
  BY <1>2, FieldNames DEF iperf_defaults
<1>4. server.mode = "RECEIVER"
  BY <1>2, <1>3, ModeFollows, SMTT(30)
<1>5. server.sender_has_retransmits \in 0 .. 3
  BY <1>2 DEF Good, Typed, Numbers, iperf_defaults
<1>6. server.sender_has_retransmits \in {0, 1}
  BY SMT, <1>1, FieldNames DEF Init, iperf_set_test_role, check_sender_has_retransmits, iperf_defaults
<1>7. Clean(server)
  BY <1>2, <1>3, <1>4, <1>6, FieldNames DEF Clean, Reset, ResetFields, Retransmits
<1> QED BY <1>1, <1>2, <1>7 DEF Init, SettingsInv, Good, NoFlags, Flags

\* An option that is accepted, and a command line that is refused.
LEMMA AcceptedKeeps ==
  ASSUME SettingsInv, phase = "options", Good(test'), flags' \in Flags,
         UNCHANGED <<phase, server>>
  PROVE  SettingsInv'
BY DEF SettingsInv, Clean, Reset

\* The next client starts from the defaults.
LEMMA RejectedKeeps == SettingsInv /\ phase = "options" /\ Reject => SettingsInv'
BY Defaults, AcceptedKeeps DEF Reject, Good, NoFlags, Flags

\* Every option of iperf_parse_arguments keeps the invariant.
LEMMA OptionKeeps == SettingsInv /\ Option => SettingsInv'
<1> SUFFICES ASSUME SettingsInv, Option
             PROVE  SettingsInv'
  OBVIOUS
<1>1. Good(test) /\ flags \in Flags /\ ClientFlag \in Flags
  BY ZenonT(60) DEF SettingsInv, ClientFlag, Flags
<1>2. ASSUME NEW t, Good(t), NEW f \in Flags, Take(t, f)
      PROVE  SettingsInv'
  BY <1>2, AcceptedKeeps DEF Take
<1>3. CASE RefusedOption
  BY <1>3, RejectedKeeps DEF RefusedOption
<1>4. ASSUME NEW role \in {"c", "s"}, RoleOption(role)
      PROVE  SettingsInv'
  <2>1. CASE test.role \notin {"none", role}
    BY <1>4, <2>1, RejectedKeeps DEF RoleOption
  <2>2. CASE test.role \in {"none", role}
    BY <1>1, <1>4, <2>2, SetRole, AcceptedKeeps DEF RoleOption
  <2> QED BY <2>1, <2>2
<1>5. CASE ServerOption
  <2>1. [flags EXCEPT !.server = TRUE] \in Flags
    BY <1>1, ZenonT(60) DEF Flags
  <2> QED BY <1>1, <1>2, <1>5, <2>1 DEF ServerOption
<1>6. CASE ProtocolOption
  BY <1>1, <1>2, <1>6, SetProtocol DEF ProtocolOption
<1>7. ASSUME NEW rate \in 0 .. 1, NEW burst \in 0 .. 3, RateOption(rate, burst)
      PROVE  SettingsInv'
  <2>1. CASE burst \in {0, 2}
    BY <1>3, <1>7, <2>1 DEF RateOption
  <2>2. CASE burst \notin {0, 2}
    <3> DEFINE r == Put(test, "rate", rate)
               b == Put(r, "burst", 1)
    <3>1. "rate" \in Plain /\ "burst" \in Plain /\ {"rate", "burst"} \cap LimitedFields = {}
      BY FieldNames DEF Plain, Numbers, Fields, LimitedFields
    <3>2. Good(r)
      BY <1>1, <3>1, rate \in 0 .. 3, SetPlain, SMTT(30)
    <3>3. Good(b)
      <4> HIDE DEF r
      <4> QED BY <3>1, <3>2, 1 \in 0 .. 3, SetPlain
    <3>4. r.burst = test.burst
      BY <1>1, FieldNames DEF Good, IsStruct, Put
    <3>5. [test EXCEPT !.rate = rate, !.burst = IF burst = 1 THEN 1 ELSE @] \in {r, b}
      <4>1. CASE burst = 1
        BY <4>1, ZenonT(60) DEF Put
      <4>2. CASE burst # 1
        <5>1. [r EXCEPT !["burst"] = r.burst] = r
          <6> HIDE DEF r
          <6> QED BY <3>2, FieldNames DEF Good, IsStruct
        <5>2. [test EXCEPT !.rate = rate, !.burst = IF burst = 1 THEN 1 ELSE @]
                = [r EXCEPT !["burst"] = r.burst]
          BY <4>2, <3>4, ZenonT(60) DEF Put
        <5> QED BY <5>1, <5>2
      <4> QED BY <4>1, <4>2
    <3>6. [ClientFlag EXCEPT !.rate = TRUE] \in Flags
      BY <1>1, ZenonT(60) DEF Flags
    <3> QED
      <4> HIDE DEF r, b
      <4> QED BY <3>6, <1>2, <1>7, <2>2, <3>2, <3>3, <3>5 DEF RateOption
  <2> QED BY <2>1, <2>2
<1>8. ASSUME NEW f \in LimitedFields, NEW v \in 0 .. 2, LimitedOption(f, v)
      PROVE  SettingsInv'
  <2>1. f \in Plain
    BY FieldNames DEF Plain, Numbers, Fields, LimitedFields
  <2>2. CASE ~Allowed(v)
    BY <1>3, <1>8, <2>2 DEF LimitedOption
  <2>3. CASE Allowed(v)
    <3>1. v \in 0 .. 3 /\ v # 2
      BY <2>3 DEF Allowed
    <3>2. Good(Put(test, f, v))
      BY <1>1, <2>1, <3>1, SetPlain
    <3>3. [ClientFlag EXCEPT !.duration = TRUE] \in Flags
      BY <1>1, ZenonT(60) DEF Flags
    <3> QED BY <1>1, <1>2, <1>8, <2>3, <3>2, <3>3 DEF LimitedOption, Put
  <2> QED BY <2>2, <2>3
<1>9. ASSUME NEW f \in {"bytes", "blocks", "pacing_timer"}, NEW v \in 0 .. 1, NumberOption(f, v)
      PROVE  SettingsInv'
  <2>1. f \in Plain /\ f \notin LimitedFields
    BY FieldNames DEF Plain, Numbers, Fields, LimitedFields
  <2>2. Good(Put(test, f, v))
    BY <1>1, <2>1, v \in 0 .. 3, SetPlain
  <2> QED BY <1>1, <1>2, <1>9, <2>2 DEF NumberOption, Put
<1>10. ASSUME NEW v \in 0 .. 4, BlockSizeOption(v)
       PROVE  SettingsInv'
  <2>1. [ClientFlag EXCEPT !.blksize = v] \in Flags
    BY <1>1 DEF Flags
  <2> QED BY <1>1, <1>2, <1>10, <2>1 DEF BlockSizeOption
<1>11. ASSUME NEW f \in {"reverse", "bidirectional"}, DirectionOption(f)
       PROVE  SettingsInv'
  <2>1. CASE (f = "reverse" /\ test.bidirectional = 1) \/ (f = "bidirectional" /\ test.reverse = 1)
    BY <1>3, <1>11, <2>1, SMTT(30) DEF DirectionOption
  <2>2. CASE f = "reverse" /\ test.bidirectional # 1
    BY <1>1, <1>2, <1>11, <2>2, SetReverse DEF DirectionOption, Good, Directed
  <2>3. CASE f = "bidirectional" /\ test.reverse # 1
    BY <1>1, <1>2, <1>11, <2>3, SetBidirectional DEF DirectionOption, Good, Directed
  <2> QED BY <2>1, <2>2, <2>3
<1>12. ASSUME NEW f \in {"no_delay", "title", "extra_data", "get_server_output",
                         "udp_counters_64bit", "repeating_payload"}, SwitchOption(f)
       PROVE  SettingsInv'
  <2>1. f \in Plain /\ f \notin LimitedFields
    BY FieldNames DEF Plain, Numbers, Fields, LimitedFields
  <2>2. Good(Put(test, f, 1))
    BY <1>1, <2>1, 1 \in 0 .. 3, SetPlain
  <2> QED BY <1>1, <1>2, <1>12, <2>2 DEF SwitchOption, Put
<1> QED BY <1>3, <1>4, <1>5, <1>6, <1>7, <1>8, <1>9, <1>10, <1>11, <1>12 DEF Option

\* iperf_parse_arguments leaves a client with a block size.
LEMMA ConnectKeeps == SettingsInv /\ Connect => SettingsInv'
<1> SUFFICES ASSUME SettingsInv, Connect
             PROVE  SettingsInv'
  OBVIOUS
<1>1. CASE ~Consistent \/ test.role = "s"
  BY <1>1, RejectedKeeps, SMTT(30) DEF Connect
<1>2. CASE Consistent /\ test.role # "s"
  <2> DEFINE b == IF Blksize = 0 THEN DEFAULT_UDP_BLKSIZE ELSE Blksize
             x == IF flags.rate THEN test.rate ELSE IF test.protocol = "udp" THEN UDP_RATE ELSE 0
             sized == Put(test, "blksize", b)
             rated == Put(sized, "rate", x)
             timed == Put(rated, "duration", Duration)
  <2>1. Good(test) /\ test.role = "c"
    BY <1>2 DEF SettingsInv, Consistent, Good, Typed
  <2>2. /\ "blksize" \in Plain /\ "rate" \in Plain /\ "duration" \in Plain
        /\ {"blksize", "rate"} \cap LimitedFields = {}
        /\ {"blksize", "rate", "duration"} \subseteq Numbers /\ "duration" \in LimitedFields
    BY FieldNames, SMTT(30) DEF Plain, Numbers, Fields, LimitedFields
  <2>3. b \in 1 .. 3
    BY <1>2 DEF SettingsInv, Flags, Consistent, Blksize, DEFAULT_UDP_BLKSIZE, DEFAULT_TCP_BLKSIZE
  <2>4. x \in 0 .. 3
    BY <2>1, <2>2 DEF Good, Typed, UDP_RATE
  <2>5. Duration \in 0 .. 3 /\ Duration # 2
    BY <2>1, <2>2 DEF Good, Typed, Duration
  <2>6. test' = timed
    <3>1. test' = [test EXCEPT !.blksize = b, !.rate = IF flags.rate THEN @
                                  ELSE IF test.protocol = "udp" THEN UDP_RATE ELSE 0,
                               !.duration = Duration]
      BY <1>2 DEF Connect
    <3> HIDE DEF b
    <3>2. sized.rate = test.rate
      BY <2>1, FieldNames DEF Put, Good, IsStruct
    <3> DEFINE y == IF flags.rate THEN sized.rate
                    ELSE IF test.protocol = "udp" THEN UDP_RATE ELSE 0
    <3>3. test' = Put(Put(sized, "rate", y), "duration", Duration)
      BY <3>1, ZenonT(60) DEF Put
    <3>4. y = x
      BY <3>2
    <3> HIDE DEF x, y, sized
    <3> QED BY <3>3, <3>4
  <2> HIDE DEF b, x
  <2>7. Good(sized)
    BY <2>1, <2>2, <2>3, b \in 0 .. 3, SetPlain, ZenonT(60)
  <2>8. sized.role = "c" /\ sized.blksize = b
    BY <2>1, FieldNames DEF Put, Good, IsStruct
  <2> HIDE DEF sized
  <2>9. Good(rated)
    BY <2>2, <2>4, <2>7, SetPlain, ZenonT(60)
  <2>10. rated.role = "c" /\ rated.blksize = b
    BY <2>7, <2>8, FieldNames DEF Put, Good, IsStruct
  <2> HIDE DEF rated
  <2>11. Good(timed)
    BY <2>2, <2>5, <2>9, SetPlain, ZenonT(60)
  <2>12. timed.role = "c" /\ timed.blksize = b
    BY <2>9, <2>10, FieldNames DEF Put, Good, IsStruct
  <2> HIDE DEF timed
  <2>13. /\ phase = "options" /\ phase' = "connected" /\ flags' = NoFlags
         /\ UNCHANGED server
    BY <1>2 DEF Connect
  <2>14. NoFlags \in Flags
    BY SMTT(30) DEF NoFlags, Flags
  <2> QED BY <2>3, <2>6, <2>11, <2>12, <2>13, <2>14 DEF SettingsInv, Clean
<1> QED BY <1>1, <1>2

\* send_parameters and get_parameters establish that the server mirrors the client.
LEMMA ExchangeKeeps == SettingsInv /\ Exchange => SettingsInv'
<1> SUFFICES ASSUME SettingsInv, Exchange
             PROVE  SettingsInv'
  OBVIOUS
<1>1. /\ Good(test) /\ test.blksize # 0 /\ test.role = "c"
      /\ Clean(server) /\ server.role = "s" /\ IsStruct(server) /\ Typed(server)
  BY SMTT(30) DEF SettingsInv, Exchange
<1>2. Good(server)
  BY <1>1 DEF Good, Clean, Reset, ResetFields, Directed, iperf_defaults
<1>3. /\ IsStruct(server') /\ Typed(server') /\ server'.role = "s"
      /\ \A f \in ResetFields \cup {"protocol"} : server'[f] = test[f]
      /\ server'.mode = IF test.bidirectional = 1 THEN "BIDIRECTIONAL"
                        ELSE IF test.reverse = 1 THEN "SENDER" ELSE "RECEIVER"
      /\ Retransmits(server')
  BY <1>1, <1>2, Parameters, SMTT(30) DEF Exchange
<1> QED BY <1>1, <1>3, SMTT(30) DEF SettingsInv, Exchange, Retransmits

\* Only the buffer sizes may grow when the streams are created.
LEMMA CreateStreamsKeeps == SettingsInv /\ CreateStreams => SettingsInv'
<1> SUFFICES ASSUME SettingsInv, CreateStreams
             PROVE  SettingsInv'
  OBVIOUS
<1>1. ASSUME NEW t, IsStruct(t), Typed(t), NEW small \in BOOLEAN,
             NEW u, u = Larger(t, small)
      PROVE  /\ IsStruct(u) /\ Typed(u) /\ u.role = t.role
             /\ Directed(t) => Directed(u)
  <2> DEFINE v == IF small /\ t.socket_bufsize = 0 /\ t.protocol = "udp" THEN 2
                  ELSE t.socket_bufsize
  <2>1. "socket_bufsize" \in Fields /\ v \in 0 .. 3
    BY <1>1, FieldNames DEF Typed, Numbers, Fields
  <2>2. u = [t EXCEPT !["socket_bufsize"] = v]
    BY <1>1 DEF Larger
  <2> HIDE DEF v
  <2>3. /\ IsStruct(u) /\ u.socket_bufsize = v
        /\ \A g \in Fields \ {"socket_bufsize"} : u[g] = t[g]
    BY <1>1, <2>1, <2>2, SMTT(30) DEF IsStruct
  <2>4. Typed(u)
    BY <1>1, <2>1, <2>3, FieldNames, SMTT(30) DEF Typed, Numbers, LimitedFields, Fields
  <2>5. /\ u.role = t.role /\ u.mode = t.mode /\ u.protocol = t.protocol
        /\ u.reverse = t.reverse /\ u.bidirectional = t.bidirectional
        /\ u.sender_has_retransmits = t.sender_has_retransmits
    BY <2>3, FieldNames
  <2> QED BY <2>3, <2>4, <2>5 DEF Directed, Retransmits
<1>2. PICK s, c \in BOOLEAN : server' = Larger(server, s) /\ test' = Larger(test, c)
  BY SMTT(30) DEF CreateStreams
<1>3. Good(test') /\ test'.role = test.role
  BY <1>1, <1>2 DEF SettingsInv, Good
<1>4. IsStruct(server') /\ Typed(server') /\ server'.role = server.role
  BY <1>1, <1>2 DEF SettingsInv
<1> QED BY <1>3, <1>4 DEF SettingsInv, CreateStreams

\* iperf_reset_test leaves nothing of the client in the fields it puts back.
LEMMA EndTestKeeps == SettingsInv /\ EndTest => SettingsInv'
<1> SUFFICES ASSUME SettingsInv, EndTest
             PROVE  SettingsInv'
  OBVIOUS
<1>1. IsStruct(server) /\ Typed(server) /\ server.role = "s"
  BY DEF SettingsInv
<1>2. /\ IsStruct(server')
      /\ \A f \in Fields : server'[f] = IF f \in Reset THEN iperf_defaults[f] ELSE server[f]
  <2>1. DOMAIN server = Fields
    BY <1>1 DEF IsStruct
  <2> QED BY <2>1 DEF EndTest, iperf_reset_test, IsStruct, Reset
<1>3. server'.role = "s"
  BY <1>1, <1>2, FieldNames DEF Reset, ResetFields
<1>4. Clean(server')
  BY <1>2, FieldNames DEF Clean, Reset, ResetFields
<1>5. Typed(server')
  <2>1. \A f \in Fields : server'[f] \in {server[f], iperf_defaults[f]}
    BY <1>2
  <2>2. \A f \in {"role", "protocol", "mode"} \cup Numbers \cup LimitedFields : f \in Fields
    BY FieldNames DEF Numbers, Fields, LimitedFields
  <2> QED BY <1>1, <2>1, <2>2, Defaults, ZenonT(60) DEF Typed
<1> QED BY <1>3, <1>4, <1>5, <1>2, Defaults, SMTT(30) DEF SettingsInv, EndTest, Clean, Good
-----------------------------------------------------------------------------
(* The theorems.                                                           *)

\* The invariant is inductive.
LEMMA SettingsStep == SettingsInv /\ [Next]_vars => SettingsInv'
<1> SUFFICES ASSUME SettingsInv, [Next]_vars
             PROVE  SettingsInv'
  BY SMTT(30)
<1>1. CASE UNCHANGED vars
  BY <1>1, SMTT(30) DEF SettingsInv, vars, Good, Directed, Typed, IsStruct, Retransmits, Clean
<1> QED BY <1>1, OptionKeeps, ConnectKeeps, ExchangeKeeps, CreateStreamsKeeps, EndTestKeeps DEF Next

\* The invariant holds always.
LEMMA SettingsAlways == Spec => []SettingsInv
BY InitSettings, SettingsStep, PTL DEF Spec

\* The server runs the test the client asked for, whatever came before: it has the
\* client's value of each setting that iperf_reset_test puts back, although
\* send_parameters leaves out those that are 0, and the opposite mode.
THEOREM ServerAlwaysMirrors == Spec => []ServerMirrors
<1>1. SettingsInv => ServerMirrors
  <2> SUFFICES ASSUME SettingsInv
               PROVE  ServerMirrors
    OBVIOUS
  <2>1. TypeOK
    BY DEF SettingsInv, TypeOK, Good, Typed
  <2>2. ASSUME phase = "running", ~(test.bidirectional = 1 /\ test.mode # "BIDIRECTIONAL")
        PROVE  server.mode = CASE test.mode = "SENDER" -> "RECEIVER"
                            [] test.mode = "RECEIVER" -> "SENDER"
                            [] OTHER -> "BIDIRECTIONAL"
    <3>1. test.role = "c" /\ Directed(test)
      BY <2>2 DEF SettingsInv, Good
    <3>2. /\ test.reverse \in {0, 1} /\ test.bidirectional \in {0, 1}
          /\ test.mode = "BIDIRECTIONAL" <=> test.bidirectional = 1
          /\ test.mode # "BIDIRECTIONAL" =>
               test.mode = IF test.reverse = 0 THEN "SENDER" ELSE "RECEIVER"
      BY <2>2, <3>1, SMTT(30) DEF Directed
    <3> QED BY <2>2, <3>2 DEF SettingsInv
  <2> QED BY <2>1, <2>2 DEF SettingsInv, ServerMirrors
<1> QED BY <1>1, SettingsAlways, PTL

\* On both sides the flag for retransmissions says whether the side sends over TCP,
\* although --bidir changes the mode without updating it.
THEOREM RetransmitsAlwaysKnown == Spec => []RetransmitsKnown
<1>1. SettingsInv => RetransmitsKnown
  BY DEF SettingsInv, RetransmitsKnown, Good, Directed, Retransmits
<1> QED BY <1>1, SettingsAlways, PTL
=============================================================================
