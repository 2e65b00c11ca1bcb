-------------------------------- MODULE Config --------------------------------
(***************************************************************************)
(* From a configuration file to the daemon that is built from it: what is  *)
(* left unset gets its default, what cannot be run is refused, and the     *)
(* rest decides which detectors, alerters and actions there are.  `config  *)
(* init` writes such a file from a template and a few flags.               *)
(*                                                                         *)
(* A file is what the decoder makes of it, if it can make anything of it   *)
(* ("parses"): a field nobody set holds Go's zero value.  Of a text only whether there   *)
(* is one is kept (in "given"), of a list what is in it, of the sections   *)
(* which are enabled.                                                      *)
(***************************************************************************)
EXTENDS SecurityEvents, Integers, Sequences

CONSTANT Words   \* what an operator may write where the file has a word

Modes         == {"server", "docker", "both"}
DetectorNames == <<"miner", "portscan", "ddos", "zipbomb", "exploit">>
Channels      == {"discord", "smtp", "webhook"}
Backends      == {"docker", "file", "pterodactyl"}
Sections      == {DetectorNames[i] : i \in 1..Len(DetectorNames)} \cup Channels \cup Backends

(* Replaced unless positive, in seconds.                                   *)
Durations ==
  [scan_interval |-> 5, cooldown |-> 300, window |-> 15, full_scan_interval |-> 1800]

(* Replaced where they are zero, and only there; sizes in MiB.             *)
Numbers ==
  [cpu_threshold |-> 85, sustained_seconds |-> 45, distinct_ports |-> 100, distinct_hosts |-> 50,
   pps_threshold |-> 60000, bps_threshold |-> 125000000, conn_threshold |-> 1500,
   ratio_threshold |-> 150, max_uncompressed |-> 50 * 1024, max_nesting |-> 3,
   hot_cpu_percent |-> 80, hot_write_mbps |-> 25]

(* Replaced where they are empty: an operator's list takes the place of    *)
(* the built-in one and does not extend it.                                *)
Lists ==
  [known_processes |-> {"xmrig", "minerd", "t-rex"}, pool_ports |-> {"3333", "4444"},
   pool_domains |-> {"nanopool.org"}, known_scanner_processes |-> {"nmap", "masscan", "hping3"},
   known_tools |-> {"hping3", "slowloris"}, suspicious_processes |-> {"pwnkit", "nsenter"},
   scan_paths |-> {"/var/lib/pterodactyl/volumes"}, watch_paths |-> {"/tmp", "/dev/shm", "/var/tmp"}]

DefaultTexts == {"log_level", "name", "socket", "quarantine_dir", "username"}
OtherTexts   == {"host", "to", "webhook_url", "webhook.url", "pterodactyl.url", "api_key"}
Destination  ==
  [smtp |-> {"host", "to"}, discord |-> {"webhook_url"}, webhook |-> {"webhook.url"},
   pterodactyl |-> {"pterodactyl.url", "api_key"}]

Rule == [categories : SUBSET Words, minSeverity : Words, actions : SUBSET Words]

(* The built-in words can be written, too.                                 *)
ASSUME ConfigAssumption ==
  /\ Modes \subseteq Words
  /\ \A l \in DOMAIN Lists : Lists[l] \subseteq Words
  /\ DefaultRules \subseteq Rule

Files ==
  [parses : BOOLEAN, mode : Words, dryRun : BOOLEAN, hotTrigger : {"unset", "on", "off"},
   durations : [DOMAIN Durations -> Int], numbers : [DOMAIN Numbers -> Int],
   lists : [DOMAIN Lists -> SUBSET Words], given : SUBSET (DefaultTexts \cup OtherTexts),
   enabled : SUBSET Sections, rules : SUBSET Rule]

-------------------------------------------------------------------------------
(* Load.                                                                   *)

ApplyDefaults(c) ==
  [c EXCEPT
     !.mode       = IF @ = NoValue THEN "both" ELSE @,
     !.hotTrigger = IF @ = "unset" THEN "on" ELSE @,
     !.durations  = [d \in DOMAIN Durations |-> IF @[d] > 0 THEN @[d] ELSE Durations[d]],
     !.numbers    = [n \in DOMAIN Numbers |-> IF @[n] # 0 THEN @[n] ELSE Numbers[n]],
     !.lists      = [l \in DOMAIN Lists |-> IF @[l] # {} THEN @[l] ELSE Lists[l]],
     !.given      = @ \cup DefaultTexts,
     !.rules      = IF @ # {} THEN @ ELSE DefaultRules]

Valid(c) ==
  /\ c.mode \in Modes
  /\ \A s \in c.enabled \cap DOMAIN Destination : Destination[s] \subseteq c.given

Accepted(file) == file.parses /\ Valid(ApplyDefaults(file))

Load(file) == ApplyDefaults(file)

-------------------------------------------------------------------------------
(* build.                                                                  *)

BuildDetectors(c) == SelectSeq(DetectorNames, LAMBDA d : d \in c.enabled)

BuildAlerters(c) == {a \in Channels : a \in c.enabled}

(* The zip-bomb detector alone does without Docker.                        *)
NeedsDocker(c) == c.enabled \cap {"docker", "ddos", "miner", "exploit", "portscan"} # {}

(* The daemon has a Docker client if it wants one and Docker answers now.  *)
HasDocker(c, ping) == NeedsDocker(c) /\ ping

-------------------------------------------------------------------------------
(* config init.                                                            *)

(* Of a text (the name, the webhook, the panel's URL and key) only whether *)
(* it is given, and whether all of them are plain: nothing escapes them    *)
(* when they are put between the quotes of the template, and only a text   *)
(* without quotes, backslashes and line breaks is sure to be read back.    *)
InitFlags ==
  [mode : Words, dryRun : Words, discord : BOOLEAN, pteroURL : BOOLEAN, pteroKey : BOOLEAN,
   plain : BOOLEAN]

(* The template sets the durations and all numbers but one to their       *)
(* defaults, and leaves out the lists of names and pools.                  *)
Template(plain, mode, dryRun, given, discord, pterodactyl) ==
  [parses     |-> plain,
   mode       |-> mode,
   dryRun     |-> dryRun,
   hotTrigger |-> "on",
   durations  |-> Durations,
   numbers    |-> [Numbers EXCEPT !.max_nesting = 0],
   lists      |-> [l \in DOMAIN Lists |->
                     IF l \in {"scan_paths", "watch_paths"} THEN Lists[l] ELSE {}],
   given      |-> DefaultTexts \cup {"host", "to"} \cup given,
   enabled    |-> {"miner", "portscan", "ddos", "zipbomb", "exploit", "docker", "file"}
                    \cup (IF discord THEN {"discord"} ELSE {})
                    \cup (IF pterodactyl THEN {"pterodactyl"} ELSE {}),
   rules      |-> DefaultRules]

(* Enforcement is armed only by the one word that tells it to.  Texts that *)
(* are not plain are taken to be those that break the file.                *)
RenderConfig(f) ==
  Template(
    f.plain,
    IF f.mode \in Modes THEN f.mode ELSE "both",
    f.dryRun # "false",
    (IF f.discord  THEN {"webhook_url"} ELSE {})
      \cup (IF f.pteroURL THEN {"pterodactyl.url"} ELSE {})
      \cup (IF f.pteroKey THEN {"api_key"} ELSE {}),
    f.discord,
    f.pteroURL /\ f.pteroKey)
===============================================================================
