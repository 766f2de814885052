---------------------------- MODULE SearchRules ----------------------------
(***************************************************************************)
(* The rules of a search folder and how an item is checked against them    *)
(* (src/rule.c, itemset_check_item() in src/itemset.c).                    *)
(*                                                                         *)
(* An item is a record.  A text of it is the set of the words that occur   *)
(* in it, the empty word included, unless there is no such text: title,    *)
(* body, feedTitle, feedSource and folderTitle are texts, authors and      *)
(* creators sequences of them, categories a set of names, mimes the MIME   *)
(* types of the enclosures; read, flagged and enclosed are its flags.      *)
(* A rule is a record: id, value (a word) and additive; a folder has a     *)
(* sequence of rules, anyMatch and unreadOnly.                             *)
(***************************************************************************)
EXTENDS Sequences, SequencesExt

Rule(id, value, additive) == [id |-> id, value |-> value, additive |-> additive]

\* rule_strcasecmp(): the value occurs in the text.
Mentions(text, value) == value \in text
SomeMention(texts, value) == \E t \in ToSet(texts) : Mentions(t, value)

Podcast == {"audio"}

\* The checks in the order of rule_init(); a name that is not here is no rule.
RuleIds == {"exact", "exact_title", "exact_desc", "exact_author", "unread", "flagged",
            "enclosure", "podcast", "category", "feed_title", "feed_source", "parent_folder"}

Check(rule, item) ==
    LET v == rule.value
    IN CASE rule.id = "exact" -> Mentions(item.title, v) \/ Mentions(item.body, v)
         [] rule.id = "exact_title" -> Mentions(item.title, v)
         [] rule.id = "exact_desc" -> Mentions(item.body, v)
         [] rule.id = "exact_author" -> SomeMention(item.authors \o item.creators, v)
         [] rule.id = "unread" -> ~item.read
         [] rule.id = "flagged" -> item.flagged
         [] rule.id = "enclosure" -> item.enclosed
         [] rule.id = "podcast" -> item.mimes \intersect Podcast # {}
         [] rule.id = "category" -> v \in item.categories
         [] rule.id = "feed_title" -> Mentions(item.feedTitle, v)
         [] rule.id = "feed_source" -> Mentions(item.feedSource, v)
         [] rule.id = "parent_folder" -> Mentions(item.folderTitle, v)

Holds(rule, item) == Check(rule, item) <=> rule.additive

\* itemset_add_rule(): a rule with an unknown name is left out.
AddRule(rules, rule) == IF rule.id \in RuleIds THEN Append(rules, rule) ELSE rules

NewRules(list) == FoldLeft(AddRule, <<>>, list)

(***************************************************************************)
(* The rule editor works on copies of the rules.  What the user does in it *)
(* is a sequence of edits: [op, at, to].                                   *)
(***************************************************************************)
AddedRule == Rule("exact", "", TRUE)

\* Another type keeps the value and becomes positive again.
EditRule(rule, e) ==
    CASE e.op = "type" -> Rule(e.to, rule.value, TRUE)
      [] e.op = "value" -> Rule(rule.id, e.to, rule.additive)
      [] e.op = "logic" -> Rule(rule.id, rule.value, e.to)

EditRules(rules, e) ==
    CASE e.op = "add" -> Append(rules, AddedRule)
      [] e.op = "remove" -> RemoveAt(rules, e.at)
      [] e.op \in {"type", "value", "logic"} -> [rules EXCEPT ![e.at] = EditRule(@, e)]

\* rule_editor_save(): the rules of the editor replace those of the folder.
SaveRules(folder, edits) ==
    [folder EXCEPT !.rules = NewRules(FoldLeft(EditRules, @, edits))]

(***************************************************************************)
(* itemset_check_item(): with anyMatch a check that succeeds is enough,    *)
(* even if the rule is a negative one; when none does, all the rules have  *)
(* to hold, which is then the case if all of them are negative.            *)
(***************************************************************************)
CheckItem(folder, item) ==
    LET rules == folder.rules
    IN \/ folder.anyMatch /\ \E k \in DOMAIN rules : Check(rules[k], item)
       \/ \A k \in DOMAIN rules : Holds(rules[k], item)

-----------------------------------------------------------------------------
(* What the dialog says: "Any Rule Matches", "All Rules Must Match".       *)
Wanted(folder, item) ==
    LET met == {k \in DOMAIN folder.rules : Holds(folder.rules[k], item)}
    IN IF folder.anyMatch /\ DOMAIN folder.rules # {} THEN met # {} ELSE met = DOMAIN folder.rules

\* Where the two differ: an "any" folder with a negative rule.
Negated(folder) == folder.anyMatch /\ \E k \in DOMAIN folder.rules : ~folder.rules[k].additive
=============================================================================
