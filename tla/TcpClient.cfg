CONSTANTS
  MaxLines = 2
  MaxReplies = 2
SPECIFICATION ClientSpec
PROPERTIES EndsAreSeen NoNewRecvAfterClose
