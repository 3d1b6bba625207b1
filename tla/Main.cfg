CONSTANTS
  Commands = {"chat", "generate", "forward"}
  Words = {"a", "b"}
  Sampled = {"a", "b", "<|im_end|>", "eos"}
  AddBos = TRUE
  HasEos = TRUE
  ChatContext = 17
  MaxTokens = 3
  GenerateContext = 4
  Prompts <- MCPrompts
  Limits = {1, 2, 3}
  ForwardContext = 3
  Ids = {"t0", "t1"}
  Arguments <- MCArguments
  SizeMax = 11
  Initial = 2
  Inputs <- MCInputs
SPECIFICATION Spec
INVARIANTS
  TranscriptKept SampleUsesFreshLogits RoomForEveryToken
  LinesAnswerPrefixes SuccessIsEarned LineComplete
PROPERTIES ReleasedAtExit EndsOrAsks
