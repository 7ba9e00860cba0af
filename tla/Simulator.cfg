\* Two examples, their edits, refused writes, reloads and runs.
CONSTANTS
  NoSchema = NoSchema
  NullWords = {""}
  Respelled <- MCRespelled
  Readable <- MCReadable
  EXAMPLES <- MCExamples
  DEFAULT_EXAMPLE <- Orders
  Drafts <- MCDrafts
  Texts <- MCTexts
  JSONparse <- MCJSONparse
  Properties <- MCProperties
  trim <- MCtrim
  Words <- MCWords
  Registered = {"v", "p", "q", "t"}
  RowLists <- MCRowLists
  Evaluate <- MCEvaluate
SPECIFICATION Spec
INVARIANTS
  SavedUnlessRefused
  ShownRunIsClean
  StubsSurviveTheDialog
