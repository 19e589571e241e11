------------------------------ MODULE MCClient ------------------------------
(* The client's components, each in a world of its own: `part` says which   *)
(* one a behaviour is about, and the others keep their initial state, the   *)
(* free choices of which are fixed.                                         *)
EXTENDS SecureChannel, ClientExchange, ClientDownload, ClientUpload, SshConnect, AgentLoop,
        Workbench

VARIABLE part

FrameSizes == <<2, 2, 1>>
GrantScopes == {{"exec", "push", "watch"}, {"pull", "status", "forward", "identity"}}

Fixed(S) == CHOOSE x \in S : TRUE

\* One assignment of the choices stands for those that only permute processes or
\* keys; one client runs a command, one connect has the time for a retry.
Sorted(f, order) ==
    LET Rank(x) == CHOOSE i \in DOMAIN order : order[i] = x
    IN  \A p \in DOMAIN f : Rank(f[Fixed(DOMAIN f)]) <= Rank(f[p])

Init ==
    /\ part \in {"channel", "exchange", "download", "upload", "connect", "agent", "desktop"}
    /\ ChannelInit /\ (part # "channel" => named = Fixed(Known))
    /\ ExchangeInit /\ (part # "exchange" => command = [c \in Clients |-> "exec"])
    /\ DownloadInit /\ (part # "download" => mode = [p \in Procs |-> Fixed(Modes)])
    /\ UploadInit /\ (part # "upload" => upMode = [p \in Uploaders |-> Fixed(UploadModes)])
    /\ ConnectInit /\ (part # "connect" => limit = [c \in Connectors |-> 9] /\ pinned = NoKey)
    /\ Sorted(command, <<"exec", "create_dir", "list_dir">>) /\ "exec" \in Range(command)
    /\ Sorted(mode, <<"auto", "never">>)
    /\ Sorted(upMode, <<"auto", "never">>)
    /\ Sorted(limit, <<5, 9>>) /\ 9 \in Range(limit) /\ pinned \in {NoKey, Fixed(Keys)}
    /\ AgentInit
    /\ WorkbenchInit /\ (part # "desktop" => uses = Fixed(Sessions) /\ ~vault.legacy /\ vault.ready)

Next ==
    \/ /\ part = "channel"
       /\ ChannelNext
       /\ UNCHANGED <<part, exchange, download, upload, connecting, gateway, desktop>>
    \/ /\ part = "exchange"
       /\ ExchangeNext
       /\ UNCHANGED <<part, channel, download, upload, connecting, gateway, desktop>>
    \/ /\ part = "download"
       /\ DownloadNext
       /\ UNCHANGED <<part, channel, exchange, upload, connecting, gateway, desktop>>
    \/ /\ part = "upload"
       /\ UploadNext
       /\ UNCHANGED <<part, channel, exchange, download, connecting, gateway, desktop>>
    \/ /\ part = "connect"
       /\ ConnectNext
       /\ UNCHANGED <<part, channel, exchange, download, upload, gateway, desktop>>
    \/ /\ part = "agent"
       /\ AgentNext
       /\ UNCHANGED <<part, channel, exchange, download, upload, connecting, desktop>>
    \/ /\ part = "desktop"
       /\ WorkbenchNext
       /\ UNCHANGED <<part, channel, exchange, download, upload, connecting, gateway>>

\* A power cut or a failed write; a second grant while the agent serves its
\* first line; profiles that change under the other panels than the tunnel's; a
\* recovery policy that stays as it is, and no daemon, while profiles are recovered.
Chosen ==
    /\ power + badWrites <= 1
    /\ issues = 2 => Len(readLines) <= 1
    /\ "tunnel" \in uses => vault.last = 1
    /\ {"security", "admin"} \subseteq uses =>
         /\ vault.ready /\ ui.status = {}
         /\ \A i \in Ids : ui.tasks[i] # None => ui.tasks[i].kind \notin {"adminchange", "rotate"}

Spec == Init /\ [][Next /\ Chosen']_<<part, channel, exchange, download, upload, connecting, gateway, desktop>>
=============================================================================
