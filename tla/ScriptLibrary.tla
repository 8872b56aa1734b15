---------------------------- MODULE ScriptLibrary ----------------------------
(***************************************************************************)
(* From script files to a given script: ScriptService.loadScripts and      *)
(* reloadScripts, the maps of ScriptManager, and the script selection, the *)
(* configuration form and the RUN button of MainPanel.  Loading runs once, *)
(* on a pool thread, while the user interface waits for it; the user may   *)
(* edit the files at any time.                                             *)
(*                                                                         *)
(* A ScriptCache is represented by its file.  The contents of a file are   *)
(* whether it compiles to a ScriptEngine, and the properties of the        *)
(* configuration bean of its ScriptInfo, none when it has no bean.  Of a   *)
(* property of a bean it matters whether its Property object is the one    *)
(* the configuration form shows.                                           *)
(***************************************************************************)
EXTENDS Naturals, FiniteSets

CONSTANTS
    Files,           \* script files
    Descriptions,    \* ScriptInfo.description
    Properties,      \* of configuration beans
    None             \* no script

VARIABLES
    source,          \* what each file contains
    description,     \* the description in each file
    todo,            \* files loadScripts has still to parse
    descriptionMap,  \* ScriptManager.descriptionMap
    nameMap,         \* ScriptManager.nameMap, as the set of its scripts
    config,          \* of each loaded script: the properties of its bean
    bound,           \* those of them whose Property object is in the form
    form,            \* of each description: the properties its form shows
    gui,             \* the selection and the RUN button
    enableDebug,     \* the debug switch
    given,           \* the script ScriptRunner was given
    dropped          \* history: properties a reloaded version was without

fileVars == <<source, description>>
scriptVars == <<descriptionMap, nameMap, config, bound>>
libraryVars == <<fileVars, todo, scriptVars, form, gui, enableDebug, given, dropped>>

Source == [compiles : BOOLEAN, config : SUBSET Properties]

LibraryTypeOK ==
    /\ source \in [Files -> Source]
    /\ description \in [Files -> Descriptions]
    /\ todo \subseteq Files
    /\ descriptionMap \in [Descriptions -> Files \cup {None}]
    /\ nameMap \subseteq Files
    /\ config \in [Files -> SUBSET Properties]
    /\ bound \in [Files -> SUBSET Properties]
    /\ form \in [Descriptions -> SUBSET Properties]
    /\ gui \in {"loading", "ready", "stuck"}
    /\ enableDebug \in BOOLEAN
    /\ given = None \/ given \in Files
    /\ dropped \in [Files -> SUBSET Properties]

LibraryInit ==
    /\ source \in [Files -> Source]
    /\ description \in [Files -> Descriptions]
    /\ todo = Files
    /\ descriptionMap = [d \in Descriptions |-> None]
    /\ nameMap = {}
    /\ config = [f \in Files |-> {}]
    /\ bound = [f \in Files |-> {}]
    /\ form = [d \in Descriptions |-> {}]
    /\ gui = "loading"
    /\ enableDebug \in BOOLEAN
    /\ given = None
    /\ dropped = [f \in Files |-> {}]

-----------------------------------------------------------------------------
(* The user saves a file. *)
EditFile(f, s) ==
    /\ source' = [source EXCEPT ![f] = s]
    /\ UNCHANGED <<description, todo, scriptVars, form, gui, enableDebug, given,
                   dropped>>

(* Mutant: a script that cannot be loaded is skipped. *)
ParseScriptSkipping(f) ==
    /\ gui = "loading"
    /\ f \in todo
    /\ todo' = todo \ {f}
    /\ \/ /\ source[f].compiles
          /\ descriptionMap' = [descriptionMap EXCEPT ![description[f]] = f]
          /\ nameMap' = nameMap \cup {f}
          /\ config' = [config EXCEPT ![f] = source[f].config]
          /\ UNCHANGED bound
       \/ /\ ~source[f].compiles
          /\ UNCHANGED scriptVars
    /\ UNCHANGED <<fileVars, form, gui, enableDebug, given, dropped>>

(* parseScript and putScript for the next file: the pipeline of loadScripts
   handles one file after the other.  A file that does not compile throws,
   and nobody tells the waiting user interface. *)
ParseScript(f) ==
    /\ gui = "loading"
    /\ f \in todo
    /\ todo' = todo \ {f}
    /\ \/ /\ source[f].compiles
          /\ descriptionMap' = [descriptionMap EXCEPT ![description[f]] = f]
          /\ nameMap' = nameMap \cup {f}
          /\ config' = [config EXCEPT ![f] = source[f].config]
          /\ UNCHANGED bound
          /\ UNCHANGED gui
       \/ /\ ~source[f].compiles
          /\ gui' = "stuck"
          /\ UNCHANGED scriptVars
    /\ UNCHANGED <<fileVars, form, enableDebug, given, dropped>>

(* The rest of initializeScripts and the callback it posts: forms are built
   on the beans of the scripts found by description, then scripts can be
   selected and run. *)
InitializeScripts ==
    /\ gui = "loading"
    /\ todo = {}
    /\ gui' = "ready"
    /\ form' = [d \in Descriptions |->
                   IF descriptionMap[d] = None THEN {} ELSE config[descriptionMap[d]]]
    /\ bound' = [f \in Files |->
                   IF descriptionMap[description[f]] = f THEN config[f] ELSE {}]
    /\ UNCHANGED <<fileVars, todo, descriptionMap, nameMap, config, enableDebug,
                   given, dropped>>

ToggleDebug ==
    /\ enableDebug' = ~enableDebug
    /\ UNCHANGED <<fileVars, todo, scriptVars, form, gui, given, dropped>>

(* Mutant: the arguments of copyProperties are exchanged. *)
CopyPropertiesBackwards(old, new) == {}

(* BeanUtils.copyProperties, property by property: the new bean is given the
   Property objects of the old one for the properties both have. *)
CopyProperties(old, new) == old \cap new

(* reloadScripts: the file is compiled by a new class loader. *)
ReloadScripts(f) ==
    /\ source[f].compiles
    /\ config' = [config EXCEPT ![f] = source[f].config]
    /\ bound' = [bound EXCEPT ![f] = CopyProperties(@, source[f].config)]
    /\ dropped' = [dropped EXCEPT ![f] = @ \cup (Properties \ source[f].config)]

(* The RUN button.  In debug mode the script is reloaded first; a file that
   does not compile, or a property that cannot be copied, ends the attempt. *)
RunScript(d) ==
    /\ gui = "ready"
    /\ given = None
    /\ descriptionMap[d] # None
    /\ \/ enableDebug /\ ReloadScripts(descriptionMap[d])
       \/ ~enableDebug /\ UNCHANGED <<config, bound, dropped>>
    /\ given' = descriptionMap[d]
    /\ UNCHANGED <<fileVars, todo, descriptionMap, nameMap, form, gui, enableDebug>>

(* The script ends or is stopped. *)
StopScript ==
    /\ given # None
    /\ given' = None
    /\ UNCHANGED <<fileVars, todo, scriptVars, form, gui, enableDebug, dropped>>

LibraryNext ==
    \/ \E f \in Files, s \in Source : EditFile(f, s)
    \/ \E f \in Files : ParseScript(f)
    \/ InitializeScripts
    \/ ToggleDebug
    \/ \E d \in Descriptions : RunScript(d)
    \/ StopScript

LibrarySpec == LibraryInit /\ [][LibraryNext]_libraryVars

-----------------------------------------------------------------------------
(* When the RUN button works, every file has been loaded: a single file that
   does not compile leaves it disabled (loadScripts, initializeScriptSelection),
   and of files with the same description the last one is offered. *)
ReadyMeansAllLoaded ==
    gui = "ready" =>
        /\ nameMap = Files
        /\ \A f \in Files : descriptionMap[description[f]] \in
               {g \in Files : description[g] = description[f]}

(* What the user sets in the form of a script is what the script reads,
   however often it has been recompiled with other properties meanwhile:
   reloadScripts hands the Property objects of the form on, property by
   property, unless a version without the property came in between. *)
FormReachesTheScript ==
    \A d \in Descriptions : gui = "ready" /\ descriptionMap[d] # None =>
        form[d] \subseteq bound[descriptionMap[d]] \cup dropped[descriptionMap[d]]

-----------------------------------------------------------------------------
(* The inductive invariant.  While nothing has failed, the name map holds the
   files that have been parsed, and each of them is found, or a file with its
   description that was parsed later; the RUN button waits for all of them. *)
LibraryInv ==
    /\ LibraryTypeOK
    /\ gui # "stuck" => nameMap = Files \ todo
    /\ gui = "ready" => todo = {}
    /\ \A f \in nameMap : /\ descriptionMap[description[f]] \in Files
                          /\ description[descriptionMap[description[f]]] = description[f]
    /\ \A d \in Descriptions : descriptionMap[d] # None =>
          descriptionMap[d] \in Files /\ description[descriptionMap[d]] = d
    /\ FormReachesTheScript
=============================================================================
