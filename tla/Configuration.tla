---------------------------- MODULE Configuration ----------------------------
(* The collector reads its configuration: the cursor that XMLConfObj moves *)
(* over the document (src/commonutils/confobj.cpp) and Collector's read    *)
(* functions that move it (src/collector/collector.cpp:113-330), ending in *)
(* the container of detection modules, with the directories they name.     *)
(*                                                                         *)
(* A node is [name, value, children]; white space is a node "text".  A     *)
(* position is the path of child numbers from the document, None is NULL.  *)
EXTENDS Integers, Sequences, SequencesExt

CONSTANTS
  Bodies,   \* the children of <collector>, in the order of the file
  Slashed,  \* the names of directories that end in a slash
  Files     \* the files of modules that may not exist

VARIABLES
  body,       \* those of this file
  unusable,   \* a directory or file that cannot be entered, opened or made,
              \* or "none"
  config,     \* [level |-> currentLevel, saved |-> savedPosition]
  reading,    \* the read function that is next; "done", "failed"
  modules,    \* ModuleContainer: what was added, in order
  settings,   \* what the other elements set
  entries     \* of the packet directory

vars == <<body, unusable, config, reading, modules, settings, entries>>

Element(name, children) == [name |-> name, value |-> "", children |-> children]
Leaf(name, value) == [name |-> name, value |-> value, children |-> <<>>]
Text == Leaf("text", "")
Document == Element("document", <<Element("configuration", <<Text, Element("collector", body)>>)>>)
None == <<0>>

Child(node, i) == node.children[i]
NodeAt(path) == FoldLeft(Child, Document, path)
Siblings(path) == NodeAt(Front(path)).children
(* The first sibling between two numbers that passes a test. *)
Find(parent, from, to, IsSought(_)) ==
  LET found == {i \in from..to : i <= Len(NodeAt(parent).children)
                                 /\ IsSought(NodeAt(parent).children[i])}
  IN IF found = {} THEN None
     ELSE Append(parent, CHOOSE i \in found : \A j \in found : i <= j)
FirstElement(parent, to) == Find(parent, 1, to, LAMBDA node : node.name # "text")

-----------------------------------------------------------------------------
(* XMLConfObj *)
findNode(c, name, first) ==
  LET from == IF first THEN c.level ELSE c.saved
  IN Find(Front(from), Last(from) + IF first THEN 0 ELSE 1, Len(Siblings(from)),
          LAMBDA node : node.name = name)
nodeExists(c, name) == findNode(c, name, TRUE) # None
getValue(c, name) == NodeAt(findNode(c, name, TRUE)).value
(* The one attribute that is read stands for the value of its node.        *)
getAttribute(c, name) == NodeAt(findNode(c, name, TRUE)).value
selectNode(c, name, first) ==
  IF findNode(c, name, first) = None THEN c ELSE [c EXCEPT !.saved = findNode(c, name, first)]
Inside(node) == IF node = None THEN None ELSE FirstElement(node, Len(NodeAt(node).children))
Enter(c, node) ==
  IF Inside(node) = None THEN c ELSE [level |-> Inside(node), saved |-> Inside(node)]
enterNode(c, name) == Enter(c, findNode(c, name, TRUE))
CanEnter(c, name) == nodeExists(c, name) /\ Inside(findNode(c, name, TRUE)) # None
(* Mutant: up one level, but not back to the first element there. *)
leaveNodeInPlace(c) == [level |-> Front(c.level), saved |-> Front(c.level)]
leaveNode(c) ==
  LET parent == Front(c.level)
      first == FirstElement(Front(parent), Last(parent))
  IN [level |-> IF first = None THEN c.level ELSE first, saved |-> parent]

-----------------------------------------------------------------------------
Defaults == [workingDir |-> "current", listenport |-> "default", killtime |-> "default", restartOnCrash |-> "no",
             exchange |-> "none", player |-> "off"]

Init ==
  /\ body \in Bodies
  /\ config = [level |-> <<1, 1>>, saved |-> <<1, 1>>]
  /\ reading = "collector" /\ modules = <<>> /\ settings = Defaults
  /\ unusable \in {"none", "workingDir", "packetdir", "trafficdir", "metering"} \cup Files
  /\ entries = {"regular file", "directory"}

Read(function, next) == reading = function /\ reading' = next /\ UNCHANGED <<body, unusable>>

(* enterNode(COLLECTOR_STRING); a node that is missing or has no element   *)
(* inside throws an XMLException.                                          *)
readConfig ==
  /\ Read("collector", IF CanEnter(config, "collector") THEN "workingDir" ELSE "failed")
  /\ config' = enterNode(config, "collector")
  /\ UNCHANGED <<modules, settings, entries>>

(* A directory that is given is changed to, before any file is looked for. *)
readWorkingDir ==
  LET present == nodeExists(config, "workingDir") IN
  /\ Read("workingDir", IF present /\ unusable = "workingDir" THEN "failed" ELSE "detectionmodules")
  /\ settings' = IF present THEN [settings EXCEPT !.workingDir = getValue(config, "workingDir")]
                            ELSE settings
  /\ UNCHANGED <<config, modules, entries>>

readDetectionModules ==
  LET inside == enterNode(config, "detectionmodules") IN
  /\ Read("detectionmodules",
          IF ~nodeExists(config, "detectionmodules") THEN "misc"
          ELSE IF ~CanEnter(config, "detectionmodules") THEN "failed"
          ELSE IF nodeExists(inside, "detectionmodule") THEN "module" ELSE "endModules")
  /\ config' = selectNode(inside, "detectionmodule", TRUE)
  /\ UNCHANGED <<modules, settings, entries>>

(* The loop over <arg>: the values of this level's arguments.              *)
Args(c) ==
  LET level == Siblings(c.level)
  IN FoldLeft(LAMBDA args, node : IF node.name = "arg" THEN Append(args, node.value) ELSE args,
              <<>>, SubSeq(level, Last(c.level), Len(level)))
LastArg(c) ==
  LET level == Siblings(c.level)
      at == SelectLastInSeq(level, LAMBDA node : node.name = "arg")
  IN IF at = 0 THEN c ELSE [c EXCEPT !.saved = Append(Front(c.level), at)]

(* One round of the loop over <detectionmodule>: an empty one is skipped,  *)
(* getValue throws if a child is missing, addDetectionModule starts it or  *)
(* not, unless its file does not exist, leaveNode and                      *)
(* selectNextNodeIfExists move on.                                         *)
readModule ==
  LET entered == Inside(config.saved) # None
      inside == LastArg(Enter(config, config.saved))
      complete == \A name \in {"filename", "configfile", "run"} : nodeExists(inside, name)
      valid == complete /\ getValue(inside, "run") \in {"yes", "no"}
      after == IF entered THEN leaveNode(inside) ELSE config
      more == findNode(after, "detectionmodule", FALSE) # None
  IN /\ Read("module", IF entered /\ ~valid THEN "failed" ELSE IF more THEN "module" ELSE "endModules")
     /\ modules' = IF entered /\ valid /\ getValue(inside, "filename") # unusable
                   THEN Append(modules, [filename |-> getValue(inside, "filename"),
                                         args |-> Args(inside),
                                         start |-> getValue(inside, "run") = "yes"])
                   ELSE modules
     /\ config' = selectNode(after, "detectionmodule", FALSE)
     /\ UNCHANGED <<settings, entries>>

endModules ==
  /\ Read("endModules", "misc") /\ config' = leaveNode(config)
  /\ UNCHANGED <<modules, settings, entries>>

readMisc ==
  LET Value(name) == IF nodeExists(config, name) THEN getValue(config, name) ELSE Defaults[name]
  IN /\ Read("misc", IF Value("restartOnCrash") \in {"yes", "no"} THEN "exchange" ELSE "failed")
     /\ settings' = [settings EXCEPT !.listenport = Value("listenport"),
                                     !.killtime = Value("killtime"),
                                     !.restartOnCrash = Value("restartOnCrash")]
     /\ UNCHANGED <<config, modules, entries>>

(* What earlier runs have left, if the directory can be opened.  An        *)
(* entry's name is put behind the directory's as it is written; without a  *)
(* slash between them lstat does not find it, and it is left alone.        *)
cleanPacketDir(dirName) ==
  IF unusable = "packetdir" \/ dirName \notin Slashed THEN entries ELSE entries \ {"regular file"}

(* Of a protocol of another type nothing is said and nothing set.          *)
readExchangeProtocol ==
  LET type == getAttribute(config, "exchangeprotocol")
      inside == enterNode(config, "exchangeprotocol")
      needed == CASE type = "files" -> "packetdir" [] type = "shm" -> "shmsize" [] OTHER -> "none"
      known == needed # "none"
      ok == /\ nodeExists(config, "exchangeprotocol")
            /\ known => CanEnter(config, "exchangeprotocol") /\ nodeExists(inside, needed)
  IN /\ Read("exchange", IF ok THEN "recording" ELSE "failed")
     /\ settings' = IF ok /\ known THEN [settings EXCEPT !.exchange = getValue(inside, needed)]
                    ELSE settings
     /\ entries' = IF ok /\ type = "files" THEN cleanPacketDir(getValue(inside, needed)) ELSE entries
     /\ config' = IF ok /\ known THEN leaveNode(inside) ELSE config
     /\ UNCHANGED modules

(* The recorder cannot be made without its index file.                     *)
readRecording ==
  LET inside == enterNode(config, "player")
      action == getValue(inside, "action")
      ok == /\ CanEnter(config, "player") /\ nodeExists(inside, "action")
            /\ action # "off" => /\ action \in {"record", "replay"} /\ nodeExists(inside, "trafficdir")
                                 /\ unusable # "trafficdir"
      present == nodeExists(config, "player")
  IN /\ Read("recording", IF present => ok THEN "metering" ELSE "failed")
     /\ settings' = IF present /\ ok THEN [settings EXCEPT !.player = action] ELSE settings
     /\ config' = IF present /\ ok THEN leaveNode(leaveNode(inside)) ELSE leaveNode(config)
     /\ UNCHANGED <<modules, entries>>

(* Made if it does not exist.                                              *)
setDirectoryName ==
  /\ Read("metering", IF unusable = "metering" THEN "failed" ELSE "done")
  /\ UNCHANGED <<config, modules, settings, entries>>

Over == reading \in {"done", "failed"} /\ UNCHANGED vars

Next == readConfig \/ readWorkingDir \/ readDetectionModules \/ readModule \/ endModules \/ readMisc
        \/ readExchangeProtocol \/ readRecording \/ setDirectoryName \/ Over

-----------------------------------------------------------------------------
(* In whatever order the file has its elements, a configuration that is    *)
(* read to its end has added every non-empty <detectionmodule> whose file  *)
(* exists once, in the order of the file and with its own arguments, and   *)
(* each setting is the one the file gives: no read function leaves the     *)
(* cursor where a later one does not find what stands before it.  Modules  *)
(* do not find the packets of an earlier run in the directory, if its name *)
(* is written with a slash as in README:60.                                *)
Named(nodes, name) == SelectSeq(nodes, LAMBDA node : node.name = name)
Given(nodes, name, default) ==
  IF Named(nodes, name) = <<>> THEN default ELSE Named(nodes, name)[1].value
ConfiguredAsWritten ==
  reading = "done" =>
    /\ modules = LET sections == Named(body, "detectionmodules")
                     written == SelectSeq(Named(IF sections = <<>> THEN <<>> ELSE sections[1].children,
                                                "detectionmodule"),
                                          LAMBDA m : /\ m.children # <<>>
                                                     /\ Given(m.children, "filename", "") # unusable)
                 IN [i \in DOMAIN written |->
                       LET inside == written[i].children
                           args == Named(inside, "arg")
                       IN [filename |-> Given(inside, "filename", ""),
                           args |-> [k \in DOMAIN args |-> args[k].value],
                           start |-> Given(inside, "run", "") = "yes"]]
    /\ \A name \in {"workingDir", "listenport", "killtime", "restartOnCrash"} :
          settings[name] = Given(body, name, Defaults[name])
    /\ settings.player = IF Named(body, "player") = <<>> THEN "off"
                         ELSE Given(Named(body, "player")[1].children, "action", "")
    /\ LET protocol == Named(body, "exchangeprotocol")[1]
           directory == Given(protocol.children, "packetdir", "")
       IN protocol.value = "files" =>
            /\ settings.exchange = directory
            /\ directory \in Slashed /\ unusable # "packetdir" => entries = {"directory"}
=============================================================================
