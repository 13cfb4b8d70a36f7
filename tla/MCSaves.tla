------------------------------ MODULE MCSaves ------------------------------
(* One of five parts, which take no part in one another:                     *)
(*   save     a load, other writes and a save of MCContentSave's documents   *)
(*   patch    patches of documents with an array of numbers and an object    *)
(*            nested under a root object, made of operations that hit, miss, *)
(*            overwrite, insert, append, shift and cross a scalar            *)
(*   events   a document's rows, one fault in them, and a check of them      *)
(*   offline  the queues and flushes of MCOfflineSync                        *)
(*   backup   four backups one after the other with two faults, or three of  *)
(*            which two overlap with one fault; two files are kept           *)
EXTENDS MCOfflineSync, MCContentSave, PatchRun, EventChain, BackupFiles

MCPatchDocuments ==
    { Obj([list |-> Arr(<<Num(1), Num(2)>>), name |-> Num(1)]),
      Obj([list |-> Arr(<< >>)]),
      Obj([list |-> Obj([name |-> Num(1)])]),
      Arr(<<Num(1), Obj([name |-> Num(2)])>>) }

MCPaths ==
    { <<"list">>, <<"name">>, <<"list", "0">>, <<"list", "1">>, <<"list", "-">>,
      <<"list", "name">>, <<"0">>, <<"1", "name">>, <<"-">> }

MCValues == { Num(3), Arr(<<Num(1)>>) }

MCOperations ==
    { Removal(path) : path \in MCPaths \cup {<< >>} }
    \cup { Operation(op, path, value) :
             op \in {"add", "replace"}, path \in MCPaths, value \in MCValues }
    \cup { Operation("replace", << >>, Obj([name |-> Num(1)])) }

\* The values of the patch part, with those inside them.
WithMembers(V) ==
    V \cup UNION { Range(v.obj) : v \in {w \in V : IsObject(w)} }
      \cup UNION { Range(v.arr) : v \in {w \in V : IsArray(w)} }
MCJsonValue ==
    WithMembers(WithMembers(MCPatchDocuments \cup MCValues \cup {Obj([name |-> Num(1)])}))

MCContents == { Obj([list |-> Arr(<<Num(1)>>), name |-> Num(1)]), Obj([list |-> Arr(<< >>)]) }

MCEventPatches ==
    { <<Operation("add", <<"list", "-">>, Num(3))>>,
      <<Operation("add", <<"list", "0">>, Num(3)), Removal(<<"name">>)>>,
      <<Removal(<<"list", "0">>)>>,
      <<Operation("add", <<"name">>, Num(2))>>,
      <<Operation("replace", <<"name">>, Num(2))>>,
      <<Operation("replace", << >>, Arr(<<Num(1)>>))>> }

\* All that they lead to, in as many versions as there are, and what it is made of.
MCLists == SeqOf({Num(1), Num(3)}, 4)
MCSnapshots ==
    { Obj([list |-> Arr(s)]) : s \in MCLists }
    \cup { Obj([list |-> Arr(s), name |-> Num(n)]) : s \in MCLists, n \in {1, 2} }
    \cup { Arr(<<Num(1)>>) }
MCStoredValues == WithMembers(WithMembers(MCSnapshots))
MCDifferences(before, after) == DiffJson(before, after, << >>)

VARIABLE part

mcVars == <<part, vars, contentVars, patchVars, chainVars, backupVars>>

MCInit ==
    /\ part \in {"save", "patch", "events", "offline", "backup"}
    /\ Init /\ ContentInit /\ PatchInit /\ ChainInit /\ BackupInit
    /\ part # "save" => base = Arr(<< >>)
    /\ part # "patch" => document = CHOOSE d \in PatchDocuments : TRUE
    /\ part # "events" => history = <<Obj([list |-> Arr(<< >>)])>>
    /\ part # "backup" => ~encrypt

MCNext ==
    /\ \/ part = "save" /\ ContentNext /\ UNCHANGED <<vars, patchVars, chainVars, backupVars>>
       \/ part = "patch" /\ PatchNext /\ UNCHANGED <<vars, contentVars, chainVars, backupVars>>
       \/ part = "events" /\ ChainNext /\ UNCHANGED <<vars, contentVars, patchVars, backupVars>>
       \/ part = "offline" /\ Next /\ UNCHANGED <<contentVars, patchVars, chainVars, backupVars>>
       \/ part = "backup" /\ BackupNext /\ UNCHANGED <<vars, contentVars, patchVars, chainVars>>
    /\ UNCHANGED part

MCSpec == MCInit /\ [][MCNext]_mcVars

\* The states from which TLC goes on.
Explored ==
    \/ \A i \in DOMAIN backups : backups[i].beside = {}
    \/ Len(backups) <= 3 /\ faults <= 1
=============================================================================
