CONSTANT MaxConn <- MCMaxConn
SPECIFICATION PromptSpec
PROPERTIES
  EveryConnectionTaken
CHECK_DEADLOCK FALSE
