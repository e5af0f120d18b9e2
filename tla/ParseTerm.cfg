SPECIFICATION Spec
CONSTANT Alphabets <- Texts
INVARIANTS
  TokensAreLongest
  ReadsLongestTerm
  ReadsBack
  ViewsAreParts
