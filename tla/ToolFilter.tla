------------------------------ MODULE ToolFilter ------------------------------
(* Which tools a server offers (config.rs, tools/mod.rs). A setting is a       *)
(* sequence of entries, [not, name]; the router forgets the disabled tools.    *)
EXTENDS Naturals, Sequences, SequencesExt

Editing == {"note_create", "note_write", "note_insert", "note_patch",
            "note_frontmatter_edit", "note_move", "note_delete"}
Searching == {"search_text", "search_regex", "search_tags", "search_frontmatter"}
Reading == {"note_read", "note_read_many", "note_metadata", "note_frontmatter"}
Relating == {"note_related", "note_links", "vault_broken_links", "vault_orphans"}
AboutVault == {"vault_list", "vault_info"}

AllToolNames ==
    Editing \cup Searching \cup Reading \cup Relating \cup AboutVault
    \cup {"search_semantic", "note_patch_targets", "periodic_get", "periodic_list",
          "periodic_create", "open_in_obsidian"}

Core == Searching \cup Reading \cup {"note_patch_targets"} \cup Editing \cup AboutVault
\* Mutant: reading and editing front matter in one profile.
ReadOrEdit == Searching \cup Relating \cup Reading \cup AboutVault \cup {"note_frontmatter_edit"}
ReadOnly == Searching \cup {"search_semantic"} \cup Relating \cup Reading
            \cup {"periodic_get", "periodic_list"} \cup AboutVault
Minimal == {"note_read", "note_create", "note_write", "search_text"} \cup AboutVault

Profiles == {"full", "core", "read", "minimal"}
ProfileTools(profile) ==
    CASE profile = "core"    -> Core
      [] profile = "read"    -> ReadOnly
      [] profile = "minimal" -> Minimal
      [] OTHER               -> AllToolNames

\* The names of all entries: one "!" makes the whole setting a list of denials.
Named(entries) == {e.name : e \in Range(entries)}
IsDenyList(entries) == \E e \in Range(entries) : e.not

\* A setting of one entry must be known; in a longer one a name may be anything.
ParsesAsFilter(entries) ==
    \/ Len(entries) # 1 \/ IsDenyList(entries)
    \/ Named(entries) \subseteq Profiles \cup AllToolNames

DisabledTools(entries) ==
    IF entries = <<>> THEN {}
    ELSE IF IsDenyList(entries) THEN Named(entries)
    ELSE IF Len(entries) = 1 /\ Named(entries) \subseteq Profiles
    THEN AllToolNames \ ProfileTools(entries[1].name)
    ELSE AllToolNames \ Named(entries)

Offered(entries) == AllToolNames \ DisabledTools(entries)
===============================================================================
