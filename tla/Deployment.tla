----------------------------- MODULE Deployment -----------------------------
(***************************************************************************)
(* The files of a deployment, and the commands of the `slt` tool that       *)
(* change them: init, generate-certs, add-client and remove-client, run by  *)
(* an administrator in any order, some of them at the same time, any of     *)
(* them failing or crashing between two system calls.  The administrator    *)
(* may edit server.toml by hand.                                            *)
(*                                                                         *)
(* A path names an inode; a lock and an open file belong to the inode.      *)
(* The text of a file is a set: {config}, or {} where it does not parse.    *)
(***************************************************************************)
EXTENDS Config, FiniteSets

CONSTANTS
    Proc,          \* slots for the processes that run a command: 1..n
    Inode,         \* inodes (numbers) of server.toml and of its temporary file
    ClientId,      \* identifiers that add-client may draw
    Wildcard,      \* names with a *
    NewServer,     \* the fields of a fresh server config that no command derives
    Habit          \* what an administrator may do, and how often: a function from names
                   \* of habits to records of
                   \*   alone: the commands that are only run while no other command runs
                   \*   addresses, domains: what may be given ("" is a domain)
                   \*   edits, clientEdits: edits by hand of server.toml and of client files,
                   \*                       each a section and new values of its fields
                   \*   commands, mishaps, serials: bounds; a mishap is a failure, a crash
                   \*                               or an edit, a serial a generation

ASSUME DeploymentAssumption ==
    /\ Proc \subseteq Nat \ {0} /\ Inode \subseteq Nat \ {0}
    /\ \A h \in DOMAIN Habit : {Habit[h].commands, Habit[h].mishaps, Habit[h].serials} \subseteq Nat

VARIABLES
    inodes,    \* text of an inode, and whether a command or a hand wrote it
    path,      \* "server.toml" and "server.toml.tmp" -> inode, or 0
    lock,      \* inode -> the process that holds its flock
    pem,       \* "ca", "cert", "key" -> certificate or key in the directory
    files,     \* client id -> text of client-<id>.toml
    procs,     \* the processes
    serial,    \* number of the last generated secret or certificate
    commands, mishaps,   \* how many there were
    habit,     \* which habit the administrator has
    past       \* history: what was revoked or reconfigured, and what was left half done

vars == <<inodes, path, lock, pem, files, procs, serial, commands, mishaps, habit, past>>
budget == <<commands, mishaps, habit>>
admin == Habit[habit]

NoProc == 0
NoInode == [text |-> {}, by |-> "None"]
NoPem == [exists |-> FALSE, serial |-> 0, names |-> {}]
Idle == [pc |-> "Idle", cmd |-> "None", force |-> FALSE, inline |-> FALSE, domain |-> {},
         addr |-> 0, id |-> 0, ino |-> 0, config |-> {}, client |-> {}]

Pc == {"Idle", "Lock", "Load", "Truncate", "Write", "WriteClient", "RestoreTruncate",
       "RestoreWrite", "OpenTmp", "WriteTmp", "Rename", "CheckPem", "WriteCa", "WriteCert",
       "WriteKey", "BuildConfig"}

TypeOK ==
    /\ \A i \in Inode : Cardinality(inodes[i].text) <= 1 /\ inodes[i].by \in {"None", "Cli", "Hand"}
    /\ path \in [{"server.toml", "server.toml.tmp"} -> Inode \cup {0}]
    /\ lock \in [Inode -> Proc \cup {NoProc}]
    /\ \A i \in Inode : lock[i] # NoProc =>
            procs[lock[i]].ino = i /\ procs[lock[i]].cmd = "add_client"
    /\ pem \in [{"ca", "cert", "key"} ->
                    [exists : BOOLEAN, serial : 0..admin.serials, names : SUBSET admin.domains]]
    /\ \A id \in ClientId : \A c \in files[id] : c.identity.client_id = id
    /\ \A p \in Proc : procs[p].pc \in Pc /\ (procs[p].pc = "Idle" <=> procs[p].cmd = "None")
    /\ serial \in 0..admin.serials
    /\ past \in [revoked : SUBSET ClientId, lost : SUBSET ClientId, orphans : SUBSET ClientId,
                 stale : SUBSET ClientId, named : SUBSET ClientId,
                 cut : BOOLEAN, mixed : BOOLEAN, raced : BOOLEAN]

Init ==
    /\ inodes = [i \in Inode |-> NoInode]
    /\ path = [f \in {"server.toml", "server.toml.tmp"} |-> 0]
    /\ lock = [i \in Inode |-> NoProc]
    /\ pem = [f \in {"ca", "cert", "key"} |-> NoPem]
    /\ files = [id \in ClientId |-> {}]
    /\ procs = [p \in Proc |-> Idle]
    /\ serial = 0 /\ commands = 0 /\ mishaps = 0
    /\ past = [revoked |-> {}, lost |-> {}, orphans |-> {}, stale |-> {}, named |-> {},
               cut |-> FALSE, mixed |-> FALSE, raced |-> FALSE]
    /\ habit \in DOMAIN Habit

----------------------------------------------------------------------------
(* Helpers.                                                                 *)

Text(file) == IF path[file] = 0 THEN {} ELSE inodes[path[file]].text
Exists(file) == path[file] # 0

\* An inode without a name and without an open file is free; which one a new
\* file gets does not matter.
FreeInodes == {i \in Inode : i \notin {path[f] : f \in DOMAIN path}
                             /\ \A p \in Proc : procs[p].ino # i}
NewInode == {i \in FreeInodes : \A j \in FreeInodes : i <= j}

Goto(p, pc) == procs' = [procs EXCEPT ![p].pc = pc]
\* The process exits, and the kernel releases its lock.
Exit(p) ==
    /\ procs' = [procs EXCEPT ![p] = Idle]
    /\ lock' = [i \in Inode |-> IF lock[i] = p THEN NoProc ELSE lock[i]]

Mishap ==
    /\ mishaps < admin.mishaps /\ mishaps' = mishaps + 1
    /\ UNCHANGED <<commands, habit>>

Running(p) == procs[p].pc # "Idle"
Alone(p) == \A q \in Proc \ {p} : ~Running(q)

\* The commands that expect the files to themselves; add-client takes a lock.
Lockless == {"remove_client", "init", "generate_certs"}
Overlaps(p, cmd) ==
    \E q \in Proc \ {p} : Running(q) /\ {cmd, procs[q].cmd} \cap Lockless # {}

\* The administrator starts a command; it runs in the first slot that is free.
Begin(p, cmd) ==
    /\ ~Running(p) /\ commands < admin.commands
    /\ \A q \in Proc : q < p => Running(q)
    /\ cmd \in admin.alone => Alone(p)
    /\ \A q \in Proc : procs[q].cmd \notin admin.alone
    /\ commands' = commands + 1
    /\ past' = [past EXCEPT !.raced = @ \/ Overlaps(p, cmd)]
    /\ UNCHANGED <<mishaps, habit>>

\* The certificate that a TLS section stands for: inline, or server.pem in the
\* directory of the config file.
read_cert_content(config) ==
    IF config.tls.inline THEN config.tls.cert ELSE pem["cert"]
----------------------------------------------------------------------------
(* add-client.                                                              *)

add_client_check(config, ip) ==
    FirstOf(<<Check("AlreadyAssigned",
                    \E i \in DOMAIN config.clients : config.clients[i].assigned_ipv4 = ip),
              Check("Reserved", ip = config.tun.tun_ipv4),
              Check("OutsideSubnet", ~contains_ipv4(config.tun, ip))>>)

\* The concrete name of the certificate; there is none where its name is a
\* wildcard, or where the file holds no certificate.
extract_domain_from_cert(cert) == cert.names \ Wildcard

\* LockedServerConfigFile::open looks the path up; flock waits for the inode.
\* --domain is absent ({}) or any text.
AddOpen(p) ==
    /\ Begin(p, "add_client") /\ Exists("server.toml")
    /\ \E ip \in admin.addresses, domain \in {{}} \cup {{d} : d \in admin.domains} :
            procs' = [procs EXCEPT ![p] =
                [Idle EXCEPT !.pc = "Lock", !.cmd = "add_client", !.addr = ip, !.domain = domain,
                             !.ino = path["server.toml"]]]
    /\ UNCHANGED <<inodes, path, lock, pem, files, serial>>


lock_server_config(p) ==
    /\ procs[p].pc = "Lock" /\ lock[procs[p].ino] = NoProc
    /\ lock' = [lock EXCEPT ![procs[p].ino] = p]
    /\ Goto(p, "Load")
    /\ UNCHANGED <<inodes, path, pem, files, serial, budget, past>>

\* An identifier never drawn before; which one does not matter.
FreshId ==
    LET fresh == {x \in ClientId : files[x] = {} /\ x \notin past.orphans
                                   /\ \A p \in Proc : procs[p].cmd = "add_client" => procs[p].id # x}
    IN  {x \in fresh : \A y \in fresh : x <= y}

\* The config is read through the open file; all checks precede the first change.
\* An identifier is drawn at random: a new one, or by accident one of the list.
AddLoad(p) ==
    /\ procs[p].pc = "Load"
    /\ \/ \E config \in ServerConfig_loads(inodes[procs[p].ino].text) :
          LET cert == read_cert_content(config)
              ip == procs[p].addr
              names == IF procs[p].domain # {} THEN procs[p].domain
                       ELSE extract_domain_from_cert(cert)
              listed == {config.clients[i].client_id : i \in DOMAIN config.clients}
          IN  IF add_client_check(config, ip) # "Ok" \/ ~cert.exists \/ names = {}
              THEN Exit(p)
              ELSE \E id \in listed \cup FreshId, hostname \in names :
                    IF id \in listed THEN Exit(p)
                    ELSE LET entry == [client_id |-> id, pubkey_ed25519 |-> id,
                                       assigned_ipv4 |-> ip, enabled |-> TRUE]
                         IN  /\ procs' = [procs EXCEPT ![p].pc = "Truncate", ![p].id = id,
                                    ![p].config = {[config EXCEPT !.clients = Append(@, entry)]},
                                    ![p].client = {build_client_config(config, id, id, ip,
                                                                       hostname, cert)}]
                             /\ UNCHANGED lock
       \/ ServerConfig_loads(inodes[procs[p].ino].text) = {} /\ Exit(p)
    /\ UNCHANGED <<inodes, path, pem, files, serial, budget, past>>

Ids(text) ==
    UNION {{config.clients[i].client_id : i \in DOMAIN config.clients} : config \in text}

SetText(i, text) == inodes' = [inodes EXCEPT ![i] = [text |-> text, by |-> "Cli"]]

\* What a write that fails may leave: the list of clients is the last part of
\* the file, so that a text cut inside it still parses, unless the list is gone.
Cut(config) ==
    {{}} \cup {{[config EXCEPT !.clients = SubSeq(@, 1, k)]} : k \in DOMAIN config.clients}

\* LockedServerConfigFile::save, in place: the file is truncated, then written.
SaveTruncates(p) ==
    /\ procs[p].pc \in {"Truncate", "RestoreTruncate"}
    /\ \/ /\ SetText(procs[p].ino, {})
          /\ Goto(p, IF procs[p].pc = "Truncate" THEN "Write" ELSE "RestoreWrite")
          /\ UNCHANGED <<lock, budget, past>>
       \/ /\ Mishap /\ Exit(p)
          /\ past' = [past EXCEPT !.orphans =
                          IF procs[p].pc = "Truncate" THEN @ ELSE @ \cup {procs[p].id}]
          /\ UNCHANGED inodes
    /\ UNCHANGED <<path, pem, files, serial>>

SaveWrites(p) ==
    /\ procs[p].pc \in {"Write", "RestoreWrite"}
    /\ \/ /\ SetText(procs[p].ino, procs[p].config)
          /\ IF procs[p].pc = "Write" THEN Goto(p, "WriteClient") /\ UNCHANGED lock
                                      ELSE Exit(p)
          /\ past' = [past EXCEPT !.cut = FALSE]
          /\ UNCHANGED budget
       \/ /\ Mishap /\ Exit(p)
          /\ \E config \in procs[p].config : \E text \in Cut(config) :
                /\ SetText(procs[p].ino, text)
                /\ past' = [past EXCEPT
                        !.cut = TRUE, !.orphans = @ \cup {procs[p].id},
                        !.lost = @ \cup (Ids({config}) \ Ids(text))]
    /\ UNCHANGED <<path, pem, files, serial>>

ClientFileAppears(p) ==
    /\ files' = [files EXCEPT ![procs[p].id] = procs[p].client]
    /\ past' = IF procs[p].domain = {} THEN past
               ELSE [past EXCEPT !.named = @ \cup {procs[p].id}]
    /\ Exit(p)
    /\ UNCHANGED budget

\* config.clients.truncate(original_client_count)
Truncated(text) == {[config EXCEPT !.clients = SubSeq(@, 1, Len(@) - 1)] : config \in text}

\* The name of the file is new, and it appears whole: its temporary file has a
\* name of its own.  On failure the list of the server is restored.
save_client_config(p) ==
    /\ procs[p].pc = "WriteClient"
    /\ \/ ClientFileAppears(p)
       \/ /\ Mishap
          /\ procs' = [procs EXCEPT ![p].pc = "RestoreTruncate", ![p].config = Truncated(@)]
          /\ UNCHANGED <<files, lock, past>>
    /\ UNCHANGED <<inodes, path, pem, serial>>

----------------------------------------------------------------------------
(* remove-client, and write_restricted.                                     *)

\* No lock is taken: the file is read by its path, and later replaced.
remove_client(p) ==
    /\ Begin(p, "remove_client")
    /\ \E config \in ServerConfig_loads(Text("server.toml")), id \in ClientId :
        /\ \E i \in DOMAIN config.clients : config.clients[i].client_id = id
        /\ procs' = [procs EXCEPT ![p] =
                [Idle EXCEPT !.pc = "OpenTmp", !.cmd = "remove_client", !.id = id,
                    !.config = {[config EXCEPT
                        !.clients = SelectSeq(@, LAMBDA c : c.client_id # id)]}]]
    /\ UNCHANGED <<inodes, path, lock, pem, files, serial>>

tmp_path_for(file) == "server.toml.tmp"

\* On an error the temporary file is removed, whoever wrote it.
Cleanup(p) ==
    /\ Mishap /\ Exit(p)
    /\ path' = [path EXCEPT ![tmp_path_for("server.toml")] = 0]
    /\ UNCHANGED <<inodes, pem, files, serial, past>>

\* open with create and truncate: the inode of a temporary file that is there is used again.
OpenTmp(p) ==
    LET tmp == tmp_path_for("server.toml")
    IN  /\ procs[p].pc = "OpenTmp"
        /\ \/ /\ \E i \in (IF Exists(tmp) THEN {path[tmp]} ELSE NewInode) :
                  /\ path' = [path EXCEPT ![tmp] = i]
                  /\ SetText(i, {})
                  /\ procs' = [procs EXCEPT ![p].pc = "WriteTmp", ![p].ino = i]
              /\ UNCHANGED <<lock, pem, files, serial, budget, past>>
           \/ Cleanup(p)

\* Over a longer text that another process has written meanwhile, the rest of
\* that text stays.
WriteTmp(p) ==
    /\ procs[p].pc = "WriteTmp"
    /\ \/ /\ \E text \in {procs[p].config} \cup
                    (IF inodes[procs[p].ino].text = {} THEN {} ELSE {{}}) :
                SetText(procs[p].ino, text)
          /\ Goto(p, "Rename")
          /\ UNCHANGED <<path, lock, pem, files, serial, budget, past>>
       \/ Cleanup(p)

\* The inodes that processes other than p have open keep their text.
Opened(p) == {procs[q].ino : q \in Proc \ {p}}

Deployed == {id \in ClientId : files[id] # {}}

\* A new server.toml has a new secret, and so revokes every client.
Revoked(p) == IF procs[p].cmd = "init" THEN Deployed ELSE {procs[p].id}

\* rename gives server.toml the inode that the temporary name has now.
Rename(p) ==
    LET tmp == tmp_path_for("server.toml")
    IN  /\ procs[p].pc = "Rename"
        /\ \/ IF Exists(tmp)
              THEN /\ Exit(p)
                   /\ path' = [path EXCEPT !["server.toml"] = path[tmp], ![tmp] = 0]
                   /\ inodes' = [i \in Inode |-> IF i \in {path[tmp]} \cup Opened(p)
                                                 THEN inodes[i] ELSE NoInode]
                   /\ past' = [past EXCEPT !.revoked = @ \cup Revoked(p),
                                           !.cut = FALSE]
                   /\ UNCHANGED <<pem, files, serial, budget>>
              ELSE Exit(p) /\ UNCHANGED <<inodes, path, pem, files, serial, budget, past>>
           \/ Cleanup(p)

----------------------------------------------------------------------------
(* init and generate-certs.                                                 *)

\* There is room for one more certificate, also when every command that has yet
\* to look for old ones finds none.
MayGenerate == serial + Cardinality({q \in Proc : procs[q].pc = "CheckPem"}) < admin.serials

Starts(p, cmd, force, inline, domain) ==
    /\ Begin(p, cmd) /\ MayGenerate
    /\ procs' = [procs EXCEPT ![p] =
            [Idle EXCEPT !.pc = "CheckPem", !.cmd = cmd, !.force = force, !.inline = inline,
                         !.domain = {domain}]]
    /\ UNCHANGED <<inodes, path, lock, pem, files, serial>>

\* Without --force an existing server.toml ends the command.
init(p) ==
    \E force \in BOOLEAN, inline \in BOOLEAN, domain \in admin.domains :
        /\ force \/ ~Exists("server.toml")
        /\ Starts(p, "init", force, inline, domain)

generate_certs(p) ==
    \E force \in BOOLEAN, domain \in admin.domains : Starts(p, "generate_certs", force, FALSE, domain)

\* Without --force any existing file ends the command, before one is written.
CheckPem(p) ==
    /\ procs[p].pc = "CheckPem"
    /\ IF ~procs[p].force /\ \E f \in DOMAIN pem : pem[f].exists
       THEN Exit(p) /\ UNCHANGED serial
       ELSE /\ serial' = serial + 1
            /\ procs' = [procs EXCEPT ![p].pc = "WriteCa", ![p].id = serial + 1]
            /\ UNCHANGED lock
    /\ UNCHANGED <<inodes, path, pem, files, budget, past>>

PemOf == [WriteCa |-> "ca", WriteCert |-> "cert", WriteKey |-> "key"]

\* create and truncate: the old text is gone.
new_pem(f, p) == [exists |-> TRUE, serial |-> procs[p].id, names |-> procs[p].domain]

\* What a failure leaves: the old file, one that holds nothing, or the whole
\* key, when only its permissions could not be set.
FailedPem(f, p) ==
    {pem[f], [NoPem EXCEPT !.exists = TRUE]} \cup (IF f = "key" THEN {new_pem(f, p)} ELSE {})

\* The clients that pinned another certificate than the one that now is in f.
Outdated(f, new) ==
    IF f = "cert" /\ new # pem[f] /\ ~\E config \in Text("server.toml") : config.tls.inline
    THEN Deployed ELSE {}

\* generate_certs writes its three files in this order.
WritePem(p) ==
    /\ procs[p].pc \in DOMAIN PemOf
    /\ LET f == PemOf[procs[p].pc]
       IN  \/ /\ pem' = [pem EXCEPT ![f] = new_pem(f, p)]
              /\ CASE f = "ca" -> Goto(p, "WriteCert") /\ UNCHANGED lock
                   [] f = "cert" -> Goto(p, "WriteKey") /\ UNCHANGED lock
                   [] f = "key" /\ procs[p].cmd = "init" -> Goto(p, "BuildConfig") /\ UNCHANGED lock
                   [] OTHER -> Exit(p)
              /\ past' = [past EXCEPT !.mixed = f = "ca" /\ @,
                                      !.stale = @ \cup Outdated(f, new_pem(f, p))]
              /\ UNCHANGED budget
           \/ /\ Mishap /\ Exit(p)
              /\ \E new \in FailedPem(f, p) :
                    /\ pem' = [pem EXCEPT ![f] = new]
                    /\ past' = [past EXCEPT
                            !.mixed = @ \/ (f # "ca" /\ new # new_pem(f, p)),
                            !.stale = @ \cup Outdated(f, new)]
    /\ UNCHANGED <<inodes, path, files, serial>>

\* The generated config validates, or the command ends here.
BuildConfig(p) ==
    /\ procs[p].pc = "BuildConfig"
    /\ LET tls == IF procs[p].inline
                  THEN [inline |-> TRUE, cert |-> pem["cert"], key |-> pem["key"]]
                  ELSE [inline |-> FALSE, cert |-> NoPem, key |-> NoPem]
           config == [server_secret |-> procs[p].id, network |-> NewServer.network, tls |-> tls,
                      tun |-> NewServer.tun, timing |-> ServerTimingConfig_default,
                      transport |-> NewServer.transport, limits |-> NewServer.limits,
                      clients |-> <<>>]
       IN  IF ServerConfig_validate(config) = "Ok"
           THEN /\ procs' = [procs EXCEPT ![p].pc = "OpenTmp", ![p].config = {config}]
                /\ UNCHANGED lock
           ELSE Exit(p)
    /\ UNCHANGED <<inodes, path, pem, files, serial, budget, past>>

----------------------------------------------------------------------------
(* Crashes, the editor, and the specification.                              *)

\* The temporary file of a process that dies stays.
Crash(p) ==
    /\ procs[p].pc # "Idle" /\ Mishap /\ Exit(p)
    /\ past' = [past EXCEPT
            !.cut = @ \/ procs[p].pc \in {"Write", "RestoreWrite"},
            !.orphans = IF procs[p].cmd = "add_client" THEN @ \cup ({procs[p].id} \cap ClientId) ELSE @,
            !.mixed = @ \/ procs[p].pc \in {"WriteCert", "WriteKey"}]
    /\ UNCHANGED <<inodes, path, pem, files, serial>>

Apply(config, e) ==
    [config EXCEPT ![e.part] = [f \in DOMAIN @ |-> IF f \in DOMAIN e.new THEN e.new[f] ELSE @[f]]]

EditServerConfig ==
    /\ \A p \in Proc : ~Running(p)
    /\ Mishap
    /\ \E config \in Text("server.toml"), e \in admin.edits :
            inodes' = [inodes EXCEPT ![path["server.toml"]] =
                            [text |-> {Apply(config, e)}, by |-> "Hand"]]
    /\ past' = [past EXCEPT !.stale = @ \cup Deployed]
    /\ UNCHANGED <<path, lock, pem, files, procs, serial>>

EditClientConfig ==
    /\ Mishap
    /\ \E id \in Deployed, e \in admin.clientEdits :
            /\ files' = [files EXCEPT ![id] = {Apply(client, e) : client \in @}]
            /\ past' = [past EXCEPT !.stale = @ \cup {id}]
    /\ UNCHANGED <<inodes, path, lock, pem, procs, serial>>

Step(p) ==
    \/ lock_server_config(p) \/ AddLoad(p) \/ SaveTruncates(p) \/ SaveWrites(p)
    \/ save_client_config(p)
    \/ OpenTmp(p) \/ WriteTmp(p) \/ Rename(p)
    \/ CheckPem(p) \/ WritePem(p) \/ BuildConfig(p)

Next ==
    \/ \E p \in Proc : \/ AddOpen(p) \/ remove_client(p) \/ init(p) \/ generate_certs(p)
                       \/ Step(p) \/ Crash(p)
    \/ EditServerConfig \/ EditClientConfig

Spec == Init /\ [][Next]_vars

----------------------------------------------------------------------------
(* Properties.                                                              *)

\* add_client and init, the checks before the save: what a command leaves in
\* server.toml is a configuration that the server will load, or a text that was
\* cut and does not parse.
SavedConfigIsValid ==
    \A config \in Text("server.toml") :
        inodes[path["server.toml"]].by = "Cli" => ServerConfig_validate(config) = "Ok"

\* write_restricted, "leaves any existing config intact rather than truncating
\* it", and what LockedServerConfigFile::save, which writes in place, gives up of
\* it: server.toml does not parse only while add-client writes it, or when that
\* last write failed or crashed after the truncation; also when it was the
\* roll-back, where the comment promises no more than an entry too many.
ConfigStaysWhole ==
    Exists("server.toml") /\ Text("server.toml") = {} =>
        past.cut \/ \E p \in Proc : procs[p].pc \in {"Write", "RestoreWrite"}

\* add_client, "so a client never holds credentials the server does not
\* recognize": in a server.toml that parses, the key and the address in the file
\* of a client are those of its entry, until the client is removed or a write
\* that was cut inside the list has lost the entry.
CredentialsAreKnown ==
    \A id \in ClientId \ (past.revoked \cup past.lost) :
        \A client \in files[id], config \in Text("server.toml") :
            \E i \in DOMAIN config.clients :
                config.clients[i] =
                    [client_id |-> id, assigned_ipv4 |-> client.identity.assigned_ipv4,
                     pubkey_ed25519 |-> client.identity.privkey_ed25519, enabled |-> TRUE]

\* add_client, "so the two files never disagree": an entry of server.toml whose
\* client has no file is being added, or its command crashed or could not be
\* rolled back.
EntriesHaveFiles ==
    \A config \in Text("server.toml") : \A i \in DOMAIN config.clients :
        LET id == config.clients[i].client_id
        IN  \/ files[id] # {} \/ id \in past.orphans
            \/ \E p \in Proc : procs[p].cmd = "add_client" /\ procs[p].id = id

\* generate_certs and init: the certificate and the key on disk belong together,
\* and so do those inside server.toml, unless a generation was cut short.
CertificateHasItsKey ==
    /\ past.mixed \/ pem["cert"].serial = pem["key"].serial
                  \/ \E p \in Proc : procs[p].pc = "WriteKey"
    /\ \A config \in Text("server.toml") :
            config.tls.inline => config.tls.cert.serial = config.tls.key.serial

\* build_client_config: a client added since the server was last reconfigured
\* trusts the certificate that the server presents, has its port and secret, and
\* passes the MTU and subnet checks of the authentication.  Unless the
\* administrator chose another name, it asks for the name in that certificate; its
\* file loads whenever the name is not empty.  A command that took no lock beside
\* another may have replaced what add-client had read, and ends the promise.
AddedClientIsAccepted ==
    past.raced \/ \A id \in ClientId \ (past.revoked \cup past.stale) :
        \A client \in files[id], config \in Text("server.toml") :
            /\ client.tls.tls_ca = read_cert_content(config)
            /\ \/ id \in past.named
               \/ client.network.hostname \in read_cert_content(config).names \ Wildcard
            /\ client.network.hostname # "" => ClientConfig_validate(client) = "Ok"
            /\ client.network.port = config.network.listen_tcp
            /\ client.identity.shared_secret = config.server_secret
            /\ client.tun.tun_mtu = config.tun.tun_mtu
            /\ contains_ipv4(config.tun, client.tun.tun_ipv4)

\* MIN_INTERVAL, "shorter intervals would behave as zero-duration timers", and
\* the comments at schedule_next_ping and MAX_TUN_MTU: with any configuration
\* that loads, however it was edited, no timer of the server or of a client
\* fires at once or exceeds its configured maximum, no queue, pool or table is
\* empty, and a packet of full size fits the outer link.  The arithmetic of the
\* server's ping timer does not panic for a ping_max of up to an hour, which is
\* what the comment in schedule_next_ping relies on and no validation ensures.
TimerIsSane(delay, longest) == MIN_INTERVAL <= delay.least /\ delay.most <= longest
LinkIsWideEnough(tun) == tun.tun_mtu + WrapperOverhead <= ETHERNET_IP_MTU

ServerRuns(config) ==
    /\ config.timing.ping_max <= MAX_TIMEOUT => ~ServerPingPanics(config.timing)
    /\ TimerIsSane(ServerPingDelay(config.timing), config.timing.ping_max)
    /\ \A f \in DOMAIN config.limits : config.limits[f] > 0
    /\ LinkIsWideEnough(config.tun)

ClientRuns(config) ==
    /\ TimerIsSane(ClientPingDelay(config.timing), config.timing.ping_max)
    /\ \A current \in {config.timing.reconnect_min, config.timing.reconnect_max} :
            TimerIsSane(next_delay(current), config.timing.reconnect_max)
    /\ LinkIsWideEnough(config.tun)

AcceptedConfigRuns ==
    /\ \A config \in ServerConfig_loads(Text("server.toml")) : ServerRuns(config)
    /\ \A id \in ClientId : \A config \in ClientConfig_loads(files[id]) : ClientRuns(config)

=============================================================================
