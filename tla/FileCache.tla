----------------------------- MODULE FileCache -----------------------------
(***************************************************************************)
(* The freshness check and the two tables it works on: FileCache           *)
(* (cache/closure.cc) over the `files` and `rule_results` tables of Store  *)
(* (cache/store.cc), as operators on the value of each table.              *)
(***************************************************************************)
EXTENDS ImportGraph

CONSTANTS
  Env,      \* environment hashes: version, config, tsconfigs and lockfile
  Rule,     \* the sentinel rule names payloads are kept under ("@lint", "@lint+fix")
  NoRecord  \* getFile found no row

Closure == SUBSET (Path \X Content \X SUBSET Specifier)

FileRecord == [contentHash : Content, closureHash : Closure, tsconfigHash : Env]

(* What a lint of a file answers, reduced to what it is a function of.  An *)
(* untyped lint ran no type-aware rule, so it saw no world.                *)
Payload == [path : Path, text : Content, env : Env, rule : Rule, typed : BOOLEAN,
            world : SUBSET (Path \X FileEntry)]

RuleRow == [fileHash : Content, closureHash : Closure, rule : Rule, payload : Payload]

(* lintSource on the text c of path f, under a type server that sees disk. *)
lintSource(disk, f, c, e, r, typed) ==
  [path |-> f, text |-> c, env |-> e, rule |-> r, typed |-> typed,
   world |-> IF typed THEN World(serverGraph([disk EXCEPT ![f] = c]), f) ELSE {}]

recordFor(g, f, e) ==
  [contentHash |-> g[f].contentHash, closureHash |-> closureHash(g, f), tsconfigHash |-> e]

Missing(stored) == stored = NoRecord
Fresh(stored, record) == stored = record
Stale(stored, record) == ~Missing(stored) /\ ~Fresh(stored, record)

(* As dropRuleResults, but keeping the rows of the content given. *)
dropOtherResults(rows, c) == {r \in rows : r.fileHash = c}

dropRuleResults(rows, c) == {r \in rows : r.fileHash # c}

SameKey(r, record, rule) ==
  /\ r.fileHash = record.contentHash
  /\ r.closureHash = record.closureHash
  /\ r.rule = rule

ruleResult(rows, record, rule) == {r \in rows : SameKey(r, record, rule)}

putRuleResult(rows, record, rule, payload) ==
  {r \in rows : ~SameKey(r, record, rule)} \cup
    {[fileHash |-> record.contentHash, closureHash |-> record.closureHash,
      rule |-> rule, payload |-> payload]}

putFile(files, f, record) == [files EXCEPT ![f] = record]
=============================================================================
